---- MODULE Spec2Model ----
(***************************************************************************)
(* A model of the transcript cells of codex-rs/tui/src/history_cell.rs:    *)
(* the cell constructors, plain_lines, desired_height and render_ref, the  *)
(* output truncator output_lines and the AnimatedWelcome completion latch. *)
(*                                                                         *)
(* Text is modelled as a sequence of graphemes (one-grapheme strings), a   *)
(* span as [content, style], a line as [spans, style].  Styles are sets of *)
(* attribute names.                                                        *)
(***************************************************************************)
EXTENDS Integers, Sequences, FiniteSets, TLC

VARIABLES cell, now, input, last

vars == <<cell, now, input, last>>

(***************************************************************************)
(* Bounds of the model.                                                    *)
(***************************************************************************)
\* Render widths 0..MaxWidth are queried.
MaxWidth == 1
\* One wide terminal is queried besides the narrow ones.
WideWidth == 80
\* The height of the area handed to render_ref.
AreaHeight == 40
\* Plans of 0..MaxPlanSteps steps are built.
MaxPlanSteps == 2
\* Output streams of 0..MaxSrcLines lines are fed to the truncator.
MaxSrcLines == 12
\* Plans of 0..MaxBarSteps steps are built for the progress bar.
MaxBarSteps == 13
\* Table rows of 0..MaxRowCells cells are converted.
MaxRowCells == 3
\* The lines of a long diff summary hold up to LongLineLen graphemes.
LongLineLen == 64

(***************************************************************************)
(* Program constants.                                                      *)
(***************************************************************************)
TOOL_CALL_MAX_LINES == 5
\* animation_duration = Duration::from_secs(2)
AnimationSecs == 2
\* the fixed height of the animation area
AnimatedWelcomeHeight == 18
\* u16::MAX, the largest value desired_height can return
U16Max == 65535

\* Row counts around u16::MAX: the rows a long diff summary fills on a terminal
\* one column wide.
LongRowCounts == {U16Max, U16Max + 1, U16Max + 2}

(***************************************************************************)
(* Strings: graphemes, str::lines, str::trim.                              *)
(***************************************************************************)
LF == "\n"
CR == "\r"
\* The grapheme a carriage return makes with the line feed that follows it.
CRLF == "\r\n"
\* The escape character and the NUL character.
Esc == "U+001B"
NulChar == "U+0000"

\* char::is_whitespace restricted to the graphemes of the model
IsWhitespace(g) == g \in {" ", LF, CR}

\* g.contains(char::is_control) restricted to the graphemes of the model
ContainsControl(g) == g \in {LF, CR, CRLF, Esc, NulChar}

\* A grapheme outside ASCII is written by its code points ("U+26A1"); these
\* are the ones of the cell texts that occupy two terminal columns.
WideGraphemes ==
    {"U+26A1", "U+1F4D6", "U+1F4C2", "U+1F50E", "U+2728", "U+1F9EA", "U+1F9F9",
     "U+2328U+FE0F", "U+270FU+FE0F", "U+1F4CB", "U+1F464", "U+1F9E0", "U+1F4CA"}

\* UnicodeWidthStr::width of one grapheme
SymbolWidth(g) == IF g \in WideGraphemes THEN 2 ELSE 1

\* The longest prefix of s without a line feed, the line feed included if any
\* (one item of str::split_inclusive('\n')).
RECURSIVE SplitInclusiveFirst(_)
SplitInclusiveFirst(s) ==
    IF s = <<>> THEN <<>>
    ELSE IF Head(s) = LF THEN <<LF>>
    ELSE <<Head(s)>> \o SplitInclusiveFirst(Tail(s))

\* str::lines maps each split_inclusive item: strip one "\n", then one "\r".
StripLineEnding(piece) ==
    IF piece # <<>> /\ piece[Len(piece)] = LF
    THEN LET l == SubSeq(piece, 1, Len(piece) - 1)
         IN IF l # <<>> /\ l[Len(l)] = CR THEN SubSeq(l, 1, Len(l) - 1) ELSE l
    ELSE piece

\* str::lines
RECURSIVE StrLines(_)
StrLines(s) ==
    IF s = <<>> THEN <<>>
    ELSE LET piece == SplitInclusiveFirst(s)
         IN <<StripLineEnding(piece)>> \o StrLines(SubSeq(s, Len(piece) + 1, Len(s)))

RECURSIVE TrimStart(_)
TrimStart(s) == IF s # <<>> /\ IsWhitespace(Head(s)) THEN TrimStart(Tail(s)) ELSE s

RECURSIVE TrimEnd(_)
TrimEnd(s) ==
    IF s # <<>> /\ IsWhitespace(s[Len(s)]) THEN TrimEnd(SubSeq(s, 1, Len(s) - 1)) ELSE s

\* str::trim
StrTrim(s) == TrimEnd(TrimStart(s))

\* The decimal digits of a natural number (format!("{}", n)).
DigitChar(d) == <<"0", "1", "2", "3", "4", "5", "6", "7", "8", "9">>[d + 1]

RECURSIVE Decimal(_)
Decimal(n) == IF n < 10 THEN <<DigitChar(n)>> ELSE Decimal(n \div 10) \o <<DigitChar(n % 10)>>

(***************************************************************************)
(* Lines and spans (ratatui::text).                                        *)
(***************************************************************************)
NoStyle == {}

Span(content, style) == [content |-> content, style |-> style]

\* Span::raw
RawSpan(content) == Span(content, NoStyle)

MkLine(spans) == [spans |-> spans, style |-> NoStyle]

\* Line::from(&str) / Line::from(String): Line::raw, one raw span per str::lines
\* item, so the empty string gives a line without spans.
LineFromStr(s) == MkLine([i \in 1..Len(StrLines(s)) |-> RawSpan(StrLines(s)[i])])

\* Line::from(Span)
LineFromSpan(sp) == MkLine(<<sp>>)

\* Line::styled(content, style): one span per str::lines item, style on the line
LineStyled(s, style) == [LineFromStr(s) EXCEPT !.style = style]

\* Stylize on a Line (line.dim(), line.gray()): patches the line-level style
LineWithStyle(line, style) == [line EXCEPT !.style = line.style \cup style]

\* spans.insert(0, prefix.into())
InsertFirstSpan(line, content) == [line EXCEPT !.spans = <<RawSpan(content)>> \o line.spans]

\* span.style = span.style.add_modifier(m) for every span of the line
AddModifierToSpans(line, m) ==
    [line EXCEPT !.spans = [i \in 1..Len(line.spans) |->
        [line.spans[i] EXCEPT !.style = line.spans[i].style \cup {m}]]]

\* seqs[lo] \o ... \o seqs[hi]; the range is halved so that the evaluation stays
\* shallow on a long text.
RECURSIVE ConcatRange(_, _, _)
ConcatRange(seqs, lo, hi) ==
    IF lo > hi THEN <<>>
    ELSE IF lo = hi THEN seqs[lo]
    ELSE ConcatRange(seqs, lo, (lo + hi) \div 2)
         \o ConcatRange(seqs, ((lo + hi) \div 2) + 1, hi)

Concat(seqs) == ConcatRange(seqs, 1, Len(seqs))

\* The text of a line: the contents of its spans, joined.
LineText(line) == Concat([i \in 1..Len(line.spans) |-> line.spans[i].content])

\* A blank line shows no text.
IsBlank(line) == LineText(line) = <<>>

BlankLine == LineFromStr(<<>>)

(***************************************************************************)
(* ratatui's Paragraph, the widget desired_height and render_ref build:    *)
(* its word wrap (WordWrapper), line_count and render.  The library is not *)
(* among the sources; this section follows the word wrap the specification *)
(* names.  Versions of the library differ in which control characters      *)
(* styled_graphemes leaves out besides the line feed, so the texts of the  *)
(* model that reach the wrap unparsed hold no other control character.     *)
(***************************************************************************)
\* UnicodeSegmentation::graphemes of a text: a carriage return and the line
\* feed after it are one grapheme, every other element is its own.
RECURSIVE Graphemes(_)
Graphemes(s) ==
    IF s = <<>> THEN <<>>
    ELSE IF Len(s) >= 2 /\ s[1] = CR /\ s[2] = LF
    THEN <<CRLF>> \o Graphemes(SubSeq(s, 3, Len(s)))
    ELSE <<Head(s)>> \o Graphemes(Tail(s))

\* Span::styled_graphemes, span by span: the graphemes of the span's content
\* except those that hold a control character.
LineGraphemes(line) ==
    Concat([i \in 1..Len(line.spans) |->
              SelectSeq(Graphemes(line.spans[i].content), LAMBDA g : ~ContainsControl(g))])

WrapStart ==
    [wrapped |-> <<>>, pending_line |-> <<>>, pending_word |-> <<>>,
     pending_whitespace |-> <<>>, line_width |-> 0, word_width |-> 0,
     whitespace_width |-> 0, non_whitespace_previous |-> FALSE]

\* "remove whitespace up to the end of line": drop leading pending whitespace
\* while it fits in the remaining width of the finished row.
RECURSIVE DropWhitespace(_, _)
DropWhitespace(st, remaining) ==
    IF st.pending_whitespace # <<>>
       /\ SymbolWidth(Head(st.pending_whitespace)) <= remaining
    THEN DropWhitespace(
             [st EXCEPT !.pending_whitespace = Tail(st.pending_whitespace),
                        !.whitespace_width =
                            st.whitespace_width - SymbolWidth(Head(st.pending_whitespace))],
             remaining - SymbolWidth(Head(st.pending_whitespace)))
    ELSE st

\* process_input, "append finished segment to current line": at the end of a
\* word, or when the pending word or whitespace alone overflows an empty row.
WrapWordEnd(st, g, max_line_width, trim) ==
    IF \/ st.non_whitespace_previous /\ IsWhitespace(g)
       \/ st.pending_line = <<>> /\ trim
          /\ st.word_width + SymbolWidth(g) > max_line_width
       \/ st.pending_line = <<>> /\ trim
          /\ st.whitespace_width + SymbolWidth(g) > max_line_width
       \/ st.pending_line = <<>> /\ ~trim
          /\ st.word_width + st.whitespace_width + SymbolWidth(g) > max_line_width
    THEN [st EXCEPT
            !.pending_line =
                (IF st.pending_line # <<>> \/ ~trim
                 THEN st.pending_line \o st.pending_whitespace
                 ELSE st.pending_line) \o st.pending_word,
            !.line_width =
                st.line_width
                + (IF st.pending_line # <<>> \/ ~trim THEN st.whitespace_width ELSE 0)
                + st.word_width,
            !.pending_word = <<>>,
            !.pending_whitespace = <<>>,
            !.whitespace_width = 0,
            !.word_width = 0]
    ELSE st

\* process_input, "pending word would overflow" or the row is full.
WrapBreaks(st, g, max_line_width) ==
    \/ st.line_width >= max_line_width
    \/ SymbolWidth(g) > 0
       /\ st.line_width + st.whitespace_width + st.word_width >= max_line_width

\* process_input, "append symbol to a pending buffer".
WrapPush(st, g) ==
    IF IsWhitespace(g)
    THEN [st EXCEPT !.whitespace_width = st.whitespace_width + SymbolWidth(g),
                    !.pending_whitespace = Append(st.pending_whitespace, g),
                    !.non_whitespace_previous = FALSE]
    ELSE [st EXCEPT !.word_width = st.word_width + SymbolWidth(g),
                    !.pending_word = Append(st.pending_word, g),
                    !.non_whitespace_previous = TRUE]

\* process_input after a row was finished: "don't count first whitespace
\* toward next word".
WrapPushAfterBreak(st, g) ==
    IF IsWhitespace(g) /\ st.pending_whitespace = <<>> THEN st ELSE WrapPush(st, g)

\* process_input, from the overflow test on.
WrapBreakLine(st, g, max_line_width) ==
    IF WrapBreaks(st, g, max_line_width)
    THEN WrapPushAfterBreak(
             DropWhitespace(
                 [st EXCEPT !.wrapped = Append(st.wrapped, st.pending_line),
                            !.pending_line = <<>>,
                            !.line_width = 0],
                 IF max_line_width > st.line_width
                 THEN max_line_width - st.line_width ELSE 0),
             g)
    ELSE WrapPush(st, g)

\* One iteration of WordWrapper::process_input's loop over the graphemes; a
\* grapheme wider than the row is skipped.
WrapStep(st, g, max_line_width, trim) ==
    IF SymbolWidth(g) > max_line_width THEN st
    ELSE CHOOSE after \in
             {WrapBreakLine(s, g, max_line_width) :
                  s \in {WrapWordEnd(st, g, max_line_width, trim)}} : TRUE

\* The loop over graphemes[lo..hi], in order.  The range is halved so that the
\* evaluation stays shallow, and the state after the first half is a value
\* before the second half starts.
RECURSIVE WrapLoop(_, _, _, _, _, _)
WrapLoop(st, graphemes, lo, hi, max_line_width, trim) ==
    IF lo > hi THEN st
    ELSE IF lo = hi THEN WrapStep(st, graphemes[lo], max_line_width, trim)
    ELSE CHOOSE after \in
             {WrapLoop(half, graphemes, ((lo + hi) \div 2) + 1, hi, max_line_width, trim) :
                  half \in {WrapLoop(st, graphemes, lo, (lo + hi) \div 2,
                                     max_line_width, trim)}} : TRUE

\* process_input at the end of the input line: the pending buffers become the
\* last row, and an empty input line is one empty row.
WrapFinish(st, trim) ==
    LET w1 == IF st.pending_line = <<>> /\ st.pending_word = <<>>
                 /\ st.pending_whitespace # <<>>
              THEN Append(st.wrapped, <<>>) ELSE st.wrapped
        rest == (IF st.pending_line # <<>> \/ ~trim
                 THEN st.pending_line \o st.pending_whitespace
                 ELSE st.pending_line) \o st.pending_word
    IN  IF w1 = <<>> /\ rest = <<>> THEN << <<>> >>
        ELSE IF rest # <<>> THEN Append(w1, rest) ELSE w1

\* WordWrapper::process_input: the rows one input line wraps to.
WrapLine(graphemes, max_line_width, trim) ==
    CHOOSE rows \in
        {WrapFinish(st, trim) :
             st \in {WrapLoop(WrapStart, graphemes, 1, Len(graphemes),
                              max_line_width, trim)}} : TRUE

\* The rows of a text: every line wrapped, in order.
WordWrap(lines, width, trim) ==
    Concat([i \in 1..Len(lines) |-> WrapLine(LineGraphemes(lines[i]), width, trim)])

\* Paragraph::new(text).wrap(wrap)
Paragraph(text, wrap) == [text |-> text, wrap |-> wrap]

\* counts[lo] + ... + counts[hi]
RECURSIVE SumRange(_, _, _)
SumRange(counts, lo, hi) ==
    IF lo > hi THEN 0
    ELSE IF lo = hi THEN counts[lo]
    ELSE SumRange(counts, lo, (lo + hi) \div 2)
         + SumRange(counts, ((lo + hi) \div 2) + 1, hi)

\* Paragraph::line_count (no block): 0 for a zero width, else the rows the
\* line composer yields, counted as it yields them line by line.
LineCount(paragraph, width) ==
    IF width < 1 THEN 0
    ELSE SumRange([i \in 1..Len(paragraph.text) |->
                     Len(WrapLine(LineGraphemes(paragraph.text[i]), width,
                                  paragraph.wrap.trim))],
                  1, Len(paragraph.text))

\* The rows Paragraph::render paints into an area: nothing into an empty area,
\* else the wrapped rows that fit its height.
TakeRows(rows, height) == SubSeq(rows, 1, IF Len(rows) < height THEN Len(rows) ELSE height)

PaintedRows(paragraph, area) ==
    IF area.width < 1 \/ area.height < 1 THEN <<>>
    ELSE TakeRows(WordWrap(paragraph.text, area.width, paragraph.wrap.trim), area.height)

\* usize -> u16 by a truncating cast, which keeps the low 16 bits.
TruncatingCastU16(n) == n % (U16Max + 1)

\* usize -> u16: .try_into().unwrap_or(0)
TryIntoU16OrZero(n) == IF n <= U16Max THEN n ELSE 0

(***************************************************************************)
(* Collaborators outside history_cell.rs that its lines pass through.      *)
(***************************************************************************)
\* SGR escape sequences: the escape character, '[', a parameter, 'm'; four
\* graphemes of a text.
SgrBold == <<Esc, "[", "1", "m">>
SgrReset == <<Esc, "[", "0", "m">>

\* The text starts with one of the two sequences.
StartsWithSgr(s) == Len(s) >= 4 /\ SubSeq(s, 1, 4) \in {SgrBold, SgrReset}

SgrApply(style, seq) == IF seq = SgrBold THEN style \cup {"BOLD"} ELSE NoStyle

RECURSIVE AnsiSpans(_, _, _)
AnsiSpans(s, cur, style) ==
    IF s = <<>> THEN (IF cur = <<>> THEN <<>> ELSE <<Span(cur, style)>>)
    ELSE IF StartsWithSgr(s)
    THEN (IF cur = <<>> THEN <<>> ELSE <<Span(cur, style)>>)
         \o AnsiSpans(SubSeq(s, 5, Len(s)), <<>>, SgrApply(style, SubSeq(s, 1, 4)))
    ELSE AnsiSpans(Tail(s), Append(cur, Head(s)), style)

\* codex_ansi_escape::ansi_escape_line: the text without its escape sequences,
\* cut into spans that carry the style the sequences select.
ansi_escape_line(s) == MkLine(AnsiSpans(s, <<>>, NoStyle))

RECURSIVE JoinWith(_, _)
JoinWith(strs, sep) ==
    IF strs = <<>> THEN <<>>
    ELSE IF Len(strs) = 1 THEN strs[1]
    ELSE strs[1] \o sep \o JoinWith(Tail(strs), sep)

Contains(s, g) == \E i \in 1..Len(s) : s[i] = g

\* shlex quoting of one word: bare when safe, single-quoted when empty or
\* holding a space or line feed (the words of the model hold no quote).
ShlexQuote(word) ==
    IF word = <<>> \/ Contains(word, " ") \/ Contains(word, LF)
    THEN <<"'">> \o word \o <<"'">>
    ELSE word

\* shlex::try_join fails on a word with a nul byte.
ShlexJoinFails(command) == \E i \in 1..Len(command) : Contains(command[i], NulChar)

shlex_join_safe(command) ==
    IF ShlexJoinFails(command) THEN JoinWith(command, <<" ">>)
    ELSE JoinWith([i \in 1..Len(command) |-> ShlexQuote(command[i])], <<" ">>)

\* exec_command::strip_bash_lc_and_escape: the script of `bash -lc script`,
\* else the escaped and re-joined argv.
strip_bash_lc_and_escape(command) ==
    IF Len(command) = 3 /\ command[1] = <<"b", "a", "s", "h">>
       /\ command[2] = <<"-", "l", "c">>
    THEN command[3]
    ELSE shlex_join_safe(command)

(***************************************************************************)
(* output_lines: the output truncator.                                     *)
(***************************************************************************)
NoOutput == [none |-> TRUE]

AnglePipePrefix == <<" ", " ", "U+23BF", " ">>
IndentPrefix == <<" ", " ", " ", " ">>

\* One source line of the output as displayed: decoded, prefixed, dimmed.
OutputLine(raw, prefix) ==
    AddModifierToSpans(InsertFirstSpan(ansi_escape_line(raw), prefix), "DIM")

\* format!("... {} lines truncated ...", n), prefixed and dimmed
TruncatedMarkerText(n) ==
    <<".", ".", ".", " ">> \o Decimal(n)
    \o <<" ", "l", "i", "n", "e", "s", " ", "t", "r", "u", "n", "c", "a", "t", "e", "d",
         " ", ".", ".", ".">>

TruncatedMarkerLine(n) ==
    AddModifierToSpans(InsertFirstSpan(LineFromStr(TruncatedMarkerText(n)), IndentPrefix),
                       "DIM")

\* The source lines [from..to] as displayed; only source line 1 may carry the
\* angle-pipe prefix (idx == 0 && include_angle_pipe).
DisplayRange(src_lines, from, to, first_idx, include_angle_pipe) ==
    [k \in 1..(to - from + 1) |->
        OutputLine(src_lines[from + k - 1],
                   IF from + k - 1 = first_idx /\ include_angle_pipe
                   THEN AnglePipePrefix ELSE IndentPrefix)]

\* A selection that ignores the exit code.
SelectedStreamStdout(output) == output.stdout

\* let src = if *exit_code == 0 { stdout } else { stderr };
SelectedStream(output) == IF output.exit_code = 0 THEN output.stdout ELSE output.stderr

\* A truncation test that already fires at the limit.
NeedsTruncationAtLimit(line_count) == line_count >= 2 * TOOL_CALL_MAX_LINES

\* needs_truncation = line_count > truncate_at, truncate_at = 2 * TOOL_CALL_MAX_LINES
NeedsTruncation(line_count) == line_count > 2 * TOOL_CALL_MAX_LINES

\* An elision count that forgets the tail.
ElidedCountHeadOnly(line_count) == line_count - TOOL_CALL_MAX_LINES

\* the count in the marker: line_count - TOOL_CALL_MAX_LINES * 2
ElidedCount(line_count) == line_count - TOOL_CALL_MAX_LINES * 2

\* A tail that starts one line too early.
TailSkipOneEarly(line_count) ==
    IF line_count > TOOL_CALL_MAX_LINES + 1 THEN line_count - TOOL_CALL_MAX_LINES - 1 ELSE 0

\* line_count.saturating_sub(TOOL_CALL_MAX_LINES)
TailSkip(line_count) ==
    IF line_count > TOOL_CALL_MAX_LINES THEN line_count - TOOL_CALL_MAX_LINES ELSE 0

\* The lines pushed for the source lines of the selected stream: all of them,
\* or the first and the last TOOL_CALL_MAX_LINES around the marker.
DisplayLines(src_lines, include_angle_pipe) ==
    IF NeedsTruncation(Len(src_lines))
    THEN DisplayRange(src_lines, 1, TOOL_CALL_MAX_LINES, 1, include_angle_pipe)
         \o <<TruncatedMarkerLine(ElidedCount(Len(src_lines)))>>
         \o DisplayRange(src_lines, TailSkip(Len(src_lines)) + 1, Len(src_lines), 0,
                         include_angle_pipe)
    ELSE DisplayRange(src_lines, 1, Len(src_lines), 1, include_angle_pipe)

\* A truncator that ignores the errors-only request.
output_lines_of_any_exit(output, only_err, include_angle_pipe) ==
    IF output = NoOutput THEN <<>>
    ELSE DisplayLines(StrLines(SelectedStream(output)), include_angle_pipe)

output_lines(output, only_err, include_angle_pipe) ==
    IF output = NoOutput THEN <<>>
    ELSE IF only_err /\ output.exit_code = 0 THEN <<>>
    ELSE DisplayLines(StrLines(SelectedStream(output)), include_angle_pipe)

(***************************************************************************)
(* Exec cells: the structured and the generic command path.                *)
(***************************************************************************)
LightBlue == {"fg:light_blue"}
Magenta == {"fg:magenta"}

\* The icon and description of one ParsedCommand.
ParsedCommandText(parsed) ==
    CASE parsed.kind = "Read" -> <<"U+1F4D6", " ">> \o parsed.name
      [] parsed.kind = "ListFiles" ->
            <<"U+1F4C2", " ">>
            \o (IF parsed.path # <<>> THEN parsed.path[1] ELSE shlex_join_safe(parsed.cmd))
      [] parsed.kind = "Search" ->
            <<"U+1F50E", " ">>
            \o (IF parsed.query # <<>> /\ parsed.path # <<>>
                THEN parsed.query[1] \o <<" ", "i", "n", " ">> \o parsed.path[1]
                ELSE IF parsed.query # <<>> THEN parsed.query[1]
                ELSE IF parsed.path # <<>> THEN parsed.path[1]
                ELSE shlex_join_safe(parsed.cmd))
      [] parsed.kind = "Format" ->
            <<"U+2728", " ", "F", "o", "r", "m", "a", "t", "t", "i", "n", "g">>
      [] parsed.kind = "Test" -> <<"U+1F9EA", " ">> \o shlex_join_safe(parsed.cmd)
      [] parsed.kind = "Lint" -> <<"U+1F9F9", " ">> \o shlex_join_safe(parsed.cmd)
      [] parsed.kind = "Unknown" -> <<"U+2328U+FE0F", " ">> \o shlex_join_safe(parsed.cmd)

WorkingHeader == LineFromStr(<<"U+2699U+FE0E", " ", "W", "o", "r", "k", "i", "n", "g">>)

\* A structured path that marks every command line with the 'L' prefix.
new_parsed_command_all_marked(parsed_commands, output) ==
    <<WorkingHeader>>
    \o [i \in 1..Len(parsed_commands) |->
          MkLine(<<Span(<<" ", " ", "L", " ">>, {"DIM"}),
                   Span(ParsedCommandText(parsed_commands[i]), LightBlue)>>)]
    \o output_lines(output, TRUE, FALSE)
    \o <<BlankLine>>

new_parsed_command(parsed_commands, output) ==
    <<WorkingHeader>>
    \o [i \in 1..Len(parsed_commands) |->
          MkLine(<<Span(IF i = 1 THEN <<" ", " ", "L", " ">> ELSE IndentPrefix, {"DIM"}),
                   Span(ParsedCommandText(parsed_commands[i]), LightBlue)>>)]
    \o output_lines(output, TRUE, FALSE)
    \o <<BlankLine>>

RanCommand == <<"U+26A1", " ", "R", "a", "n", " ", "c", "o", "m", "m", "a", "n", "d">>

new_exec_command_generic(command, output) ==
    LET command_escaped == strip_bash_lc_and_escape(command)
        cmd_lines == StrLines(command_escaped)
        first == IF cmd_lines # <<>>
                 THEN MkLine(<<Span(RanCommand \o <<" ">>, Magenta), RawSpan(cmd_lines[1])>>)
                 ELSE LineFromSpan(Span(RanCommand, Magenta))
    IN  <<first>>
        \o [i \in 1..(Len(cmd_lines) - 1) |-> LineFromStr(cmd_lines[i + 1])]
        \o output_lines(output, FALSE, TRUE)
        \o <<BlankLine>>

exec_command_lines(command, parsed, output) ==
    IF parsed = <<>> THEN new_exec_command_generic(command, output)
    ELSE new_parsed_command(parsed, output)








































(***************************************************************************)
(* The cell constructors.  A cell is [tag, view] for the variants that     *)
(* hold a pre-built TextBlock, [tag, command, parsed, output] for Exec,    *)
(* [tag, start_time, completed] for AnimatedWelcome and [tag, image] for   *)
(* an image result.  Option values are <<>> (None) or <<v>> (Some(v)).     *)
(***************************************************************************)
NoCell == [tag |-> "None"]

ViewCell(tag, lines) == [tag |-> tag, view |-> lines]

\* SlashCommand::description is defined outside history_cell.rs; the model
\* uses a one-line text that names the command.
SlashDescription(name) == <<"a", "b", "o", "u", "t", " ">> \o name

DimSpanLine(text) == LineFromSpan(Span(text, {"DIM"}))

new_session_info(config_model, event_model, is_first_event) ==
    IF is_first_event
    THEN ViewCell("WelcomeMessage",
           << DimSpanLine(<<>>),
              DimSpanLine(<<" ", "P", "o", "p", "u", "l", "a", "r", " ", "c", "o",
                  "m", "m", "a", "n", "d", "s", ":">>),
              DimSpanLine(<<" ", "/", "b", "r", "o", "w", "s", "e", "r", " ", "<",
                  "u", "r", "l", ">", " ", "-", " ">> \o SlashDescription(<<"b", "r",
                  "o", "w", "s", "e", "r">>)),
              DimSpanLine(<<" ", "/", "p", "l", "a", "n", " ", "-",
                  " ">> \o SlashDescription(<<"p", "l", "a", "n">>)),
              DimSpanLine(<<" ", "/", "s", "o", "l", "v", "e", " ", "-",
                  " ">> \o SlashDescription(<<"s", "o", "l", "v", "e">>)),
              DimSpanLine(<<" ", "/", "c", "o", "d", "e", " ", "-",
                  " ">> \o SlashDescription(<<"c", "o", "d", "e">>)),
              DimSpanLine(<<" ", "/", "r", "e", "a", "s", "o", "n", "i", "n", "g",
                  " ", "-", " ">> \o SlashDescription(<<"r", "e", "a", "s", "o", "n",
                  "i", "n", "g">>)),
              DimSpanLine(<<>>) >>)
    ELSE IF config_model = event_model
    THEN ViewCell("SessionInfo", <<>>)
    ELSE ViewCell("SessionInfo",
           << LineFromSpan(Span(<<"m", "o", "d", "e", "l", " ", "c", "h", "a", "n",
               "g", "e", "d", ":">>, {"fg:magenta", "BOLD"})),
              LineFromStr(<<"r", "e", "q", "u", "e", "s", "t", "e", "d", ":",
                  " ">> \o config_model),
              LineFromStr(<<"u", "s", "e", "d", ":", " ">> \o event_model),
              BlankLine >>)

new_user_prompt(message) ==
    ViewCell("UserPrompt",
        <<LineFromSpan(Span(<<"u", "s", "e", "r">>, {"fg:primary", "BOLD"}))>>
        \o [i \in 1..Len(StrLines(message)) |-> LineFromStr(StrLines(message)[i])]
        \o <<BlankLine>>)

new_exec_cell(command, parsed, output) ==
    [tag |-> "Exec", command |-> command, parsed |-> parsed, output |-> output]

new_active_exec_command(command, parsed) == new_exec_cell(command, parsed, NoOutput)

new_completed_exec_command(command, parsed, output) == new_exec_cell(command, parsed, output)

\* serde_json::to_string of the argument value (compact form).
JsonToString(v) ==
    CASE v.kind = "null" -> <<"n", "u", "l", "l">>
      [] v.kind = "number" -> Decimal(v.n)
      [] v.kind = "string" -> <<"\"">> \o v.s \o <<"\"">>

format_mcp_invocation(invocation) ==
    LET args_str == IF invocation.arguments = <<>> THEN <<>>
                    ELSE JsonToString(invocation.arguments[1])
    IN  MkLine(<< Span(invocation.server, {"fg:blue"}),
                  RawSpan(<<".">>),
                  Span(invocation.tool, {"fg:blue"}),
                  RawSpan(<<"(">>),
                  Span(args_str, {"fg:gray"}),
                  RawSpan(<<")">>) >>)

new_active_mcp_tool_call(invocation) ==
    ViewCell("ActiveMcpToolCall",
        << MkLine(<<Span(<<"t", "o", "o", "l">>, {"fg:magenta"}), Span(<<" ", "r",
            "u", "n", "n", "i", "n", "g", ".", ".", ".">>, {"DIM"})>>),
           format_mcp_invocation(invocation),
           BlankLine >>)

\* The image payloads of the model, named by what the decode pipeline makes of
\* them: base64 -> container format -> raster.
Base64DecodeOk(data) == data # "truncated_base64"
GuessFormatOk(data) == data # "unreadable_bytes"
RasterDecodeOk(data) == data = "valid_png"

\* An image path that takes the sniffed format for a decoded image.
try_new_completed_mcp_tool_call_undecoded(result) ==
    IF result.ok /\ result.content # <<>> /\ result.content[1].kind = "Image"
    THEN LET data == result.content[1].data
         IN  IF ~Base64DecodeOk(data) THEN <<>>
             ELSE IF ~GuessFormatOk(data) THEN <<>>
             ELSE <<[tag |-> "CompletedMcpToolCallWithImageOutput", image |-> data]>>
    ELSE <<>>

try_new_completed_mcp_tool_call_with_image_output(result) ==
    IF result.ok /\ result.content # <<>> /\ result.content[1].kind = "Image"
    THEN LET data == result.content[1].data
         IN  IF ~Base64DecodeOk(data) THEN <<>>
             ELSE IF ~GuessFormatOk(data) THEN <<>>
             ELSE IF ~RasterDecodeOk(data) THEN <<>>
             ELSE <<[tag |-> "CompletedMcpToolCallWithImageOutput", image |-> data]>>
    ELSE <<>>

\* codex_common::elapsed::format_duration, on a duration in milliseconds
\* (a multiple of 10 ms, so that "{:.2}" of the seconds is exact).
TwoDigits(n) == <<DigitChar(n \div 10), DigitChar(n % 10)>>

format_duration(millis) ==
    IF millis < 1000 THEN Decimal(millis) \o <<"m", "s">>
    ELSE IF millis < 60000
    THEN Decimal(millis \div 1000) \o <<".">> \o TwoDigits((millis % 1000) \div 10)
         \o <<"s">>
    ELSE Decimal(millis \div 60000) \o <<"m">> \o TwoDigits((millis % 60000) \div 1000) \o <<"s">>

\* text_formatting::truncate_text: at most max_graphemes graphemes, the cut
\* marked by "..." when there is room for it.
truncate_text(text, max_graphemes) ==
    IF Len(text) <= max_graphemes THEN text
    ELSE IF max_graphemes >= 3 THEN SubSeq(text, 1, max_graphemes - 3) \o <<".", ".",
        ".">>
    ELSE SubSeq(text, 1, max_graphemes)

\* text_formatting::format_and_truncate_tool_result (texts that are not JSON).
format_and_truncate_tool_result(text, max_lines, line_width) ==
    LET budget == max_lines * line_width
    IN  truncate_text(text, IF budget > max_lines THEN budget - max_lines ELSE 0)

\* A block display that shows a resource link the way it shows an embedded
\* resource.
ContentBlockTextLinkAsResource(block, num_cols) ==
    CASE block.kind = "Text" ->
            format_and_truncate_tool_result(block.text, TOOL_CALL_MAX_LINES, num_cols)
      [] block.kind = "Image" -> <<"<", "i", "m", "a", "g", "e", " ", "c", "o", "n",
          "t", "e", "n", "t", ">">>
      [] block.kind = "Audio" -> <<"<", "a", "u", "d", "i", "o", " ", "c", "o", "n",
          "t", "e", "n", "t", ">">>
      [] block.kind \in {"EmbeddedResource", "ResourceLink"} ->
            <<"e", "m", "b", "e", "d", "d", "e", "d", " ", "r", "e", "s", "o", "u",
                "r", "c", "e", ":", " ">> \o block.uri

\* The display text of one content block of a tool result.
ContentBlockText(block, num_cols) ==
    CASE block.kind = "Text" ->
            format_and_truncate_tool_result(block.text, TOOL_CALL_MAX_LINES, num_cols)
      [] block.kind = "Image" -> <<"<", "i", "m", "a", "g", "e", " ", "c", "o", "n",
          "t", "e", "n", "t", ">">>
      [] block.kind = "Audio" -> <<"<", "a", "u", "d", "i", "o", " ", "c", "o", "n",
          "t", "e", "n", "t", ">">>
      [] block.kind = "EmbeddedResource" -> <<"e", "m", "b", "e", "d", "d", "e", "d",
          " ", "r", "e", "s", "o", "u", "r", "c", "e", ":", " ">> \o block.uri
      [] block.kind = "ResourceLink" -> <<"l", "i", "n", "k", ":", " ">> \o block.uri

new_completed_mcp_tool_call(num_cols, invocation, duration, success, result) ==
    LET image_cell == try_new_completed_mcp_tool_call_with_image_output(result)
        title_line ==
            MkLine(<< Span(<<"t", "o", "o", "l">>, {"fg:magenta"}),
                      RawSpan(<<" ">>),
                      IF success THEN Span(<<"s", "u", "c", "c", "e", "s",
                          "s">>, {"fg:green"})
                      ELSE Span(<<"f", "a", "i", "l", "e", "d">>, {"fg:red"}),
                      Span(<<",", " ", "d", "u", "r", "a", "t", "i", "o", "n", ":",
                          " ">> \o format_duration(duration), {"fg:gray"}) >>)
        head == <<title_line, format_mcp_invocation(invocation)>>
        body ==
            IF result.ok
            THEN (IF result.content # <<>>
                  THEN <<BlankLine>>
                       \o [i \in 1..Len(result.content) |->
                             LineStyled(ContentBlockText(result.content[i], num_cols),
                                        {"fg:gray"})]
                  ELSE <<>>)
                 \o <<BlankLine>>
            ELSE << MkLine(<<Span(<<"E", "r", "r", "o", "r", ":", " ">>, {"fg:red",
                "BOLD"}), RawSpan(result.err)>>) >>
    IN  IF image_cell # <<>> THEN image_cell[1]
        ELSE ViewCell("CompletedMcpToolCall", head \o body)

new_background_event(message) ==
    ViewCell("BackgroundEvent",
        <<DimSpanLine(<<"e", "v", "e", "n", "t">>)>>
        \o [i \in 1..Len(StrLines(message)) |->
              LineWithStyle(ansi_escape_line(StrLines(message)[i]), {"DIM"})]
        \o <<BlankLine>>)

new_diff_output(message) ==
    ViewCell("GitDiffOutput",
        <<LineFromSpan(Span(<<"/", "d", "i", "f", "f">>, {"fg:magenta"}))>>
        \o (IF StrTrim(message) = <<>>
            THEN <<LineFromSpan(Span(<<"N", "o", " ", "c", "h", "a", "n", "g", "e",
                "s", " ", "d", "e", "t", "e", "c", "t", "e", "d", ".">>, {"ITALIC"}))>>
            ELSE [i \in 1..Len(StrLines(message)) |-> ansi_escape_line(StrLines(message)[i])])
        \o <<BlankLine>>)

\* Display of ReasoningEffort
ReasoningEffortText(effort) ==
    CASE effort = "Low" -> <<"l", "o", "w">>
      [] effort = "Medium" -> <<"m", "e", "d", "i", "u", "m">>
      [] effort = "High" -> <<"h", "i", "g", "h">>
      [] effort = "None" -> <<"n", "o", "n", "e">>

new_reasoning_output(effort) ==
    ViewCell("ReasoningOutput",
        << LineFromSpan(Span(<<"/", "r", "e", "a", "s", "o", "n", "i", "n",
            "g">>, {"fg:magenta"})),
           MkLine(<< RawSpan(<<"R", "e", "a", "s", "o", "n", "i", "n", "g", " ", "e",
               "f", "f", "o", "r", "t", " ", "c", "h", "a", "n", "g", "e", "d", " ",
               "t", "o", ":", " ">>),
                     Span(ReasoningEffortText(effort), {"BOLD"}) >>),
           BlankLine >>)

new_prompts_output ==
    ViewCell("PromptsOutput",
        << LineFromSpan(Span(<<"/", "p", "r", "o", "m", "p", "t",
            "s">>, {"fg:magenta"})),
           BlankLine,
           LineFromStr(<<" ", "1", ".", " ", "E", "x", "p", "l", "a", "i", "n", " ",
               "t", "h", "i", "s", " ", "c", "o", "d", "e", "b", "a", "s", "e">>),
           LineFromStr(<<" ", "2", ".", " ", "S", "u", "m", "m", "a", "r", "i", "z",
               "e", " ", "r", "e", "c", "e", "n", "t", " ", "c", "o", "m", "m", "i",
               "t", "s">>),
           LineFromStr(<<" ", "3", ".", " ", "I", "m", "p", "l", "e", "m", "e", "n",
               "t", " ", "{", "f", "e", "a", "t", "u", "r", "e", "}">>),
           LineFromStr(<<" ", "4", ".", " ", "F", "i", "n", "d", " ", "a", "n", "d",
               " ", "f", "i", "x", " ", "a", " ", "b", "u", "g", " ", "i", "n", " ",
               "@", "f", "i", "l", "e", "n", "a", "m", "e">>),
           LineFromStr(<<" ", "5", ".", " ", "W", "r", "i", "t", "e", " ", "t", "e",
               "s", "t", "s", " ", "f", "o", "r", " ", "@", "f", "i", "l", "e", "n",
               "a", "m", "e">>),
           LineFromStr(<<" ", "6", ".", " ", "I", "m", "p", "r", "o", "v", "e", " ",
               "d", "o", "c", "u", "m", "e", "n", "t", "a", "t", "i", "o", "n", " ",
               "i", "n", " ", "@", "f", "i", "l", "e", "n", "a", "m", "e">>),
           BlankLine >>)

new_error_event(message) ==
    ViewCell("ErrorEvent",
        << MkLine(<<Span(<<"U+1F590", " ">>, {"fg:red", "BOLD"}), RawSpan(message)>>),
           BlankLine >>)

\* create_config_summary_entries(config) as (key, value) pairs; lookup returns
\* the value of the first pair with the key, or the empty string.
RECURSIVE Lookup(_, _)
Lookup(entries, key) ==
    IF entries = <<>> THEN <<>>
    ELSE IF Head(entries)[1] = key THEN Head(entries)[2]
    ELSE Lookup(Tail(entries), key)

AsciiLower == <<"a", "b", "c", "d", "e", "f", "g", "h", "i", "j", "k", "l", "m", "n",
    "o", "p", "q", "r", "s", "t", "u", "v", "w", "x", "y", "z">>
AsciiUpper == <<"A", "B", "C", "D", "E", "F", "G", "H", "I", "J", "K", "L", "M", "N",
    "O", "P", "Q", "R", "S", "T", "U", "V", "W", "X", "Y", "Z">>

ToLower(g) ==
    IF \E i \in 1..26 : AsciiUpper[i] = g
    THEN AsciiLower[CHOOSE i \in 1..26 : AsciiUpper[i] = g] ELSE g

ToUpper(g) ==
    IF \E i \in 1..26 : AsciiLower[i] = g
    THEN AsciiUpper[CHOOSE i \in 1..26 : AsciiLower[i] = g] ELSE g

title_case(s) ==
    IF s = <<>> THEN <<>>
    ELSE <<ToUpper(s[1])>> \o [i \in 1..(Len(s) - 1) |-> ToLower(s[i + 1])]

pretty_provider_name(id) ==
    IF [i \in 1..Len(id) |-> ToLower(id[i])] = <<"o", "p", "e", "n", "a",
        "i">> THEN <<"O", "p", "e", "n", "A", "I">> ELSE title_case(id)

SandboxName(policy) ==
    CASE policy = "DangerFullAccess" -> <<"d", "a", "n", "g", "e", "r", "-", "f", "u",
        "l", "l", "-", "a", "c", "c", "e", "s", "s">>
      [] policy = "ReadOnly" -> <<"r", "e", "a", "d", "-", "o", "n", "l", "y">>
      [] policy = "WorkspaceWrite" -> <<"w", "o", "r", "k", "s", "p", "a", "c", "e",
          "-", "w", "r", "i", "t", "e">>

Spans2(a, b) == MkLine(<<RawSpan(a), RawSpan(b)>>)

\* TokenUsage::non_cached_input and blended_total
NonCachedInput(usage) ==
    LET cached == IF usage.cached_input_tokens = <<>> THEN 0 ELSE usage.cached_input_tokens[1]
    IN  IF usage.input_tokens > cached THEN usage.input_tokens - cached ELSE 0

BlendedTotal(usage) == NonCachedInput(usage) + usage.output_tokens

\* config: [cwd_display, cwd_rel (relativize_to_home), entries, sandbox_policy, model,
\* model_provider_id, auth (the parsed auth file, if it reads)].
new_status_output(config, usage) ==
    LET cwd_str == IF config.cwd_rel = <<>> THEN config.cwd_display
                   ELSE IF config.cwd_rel[1] # <<>> THEN <<"~",
                       "/">> \o config.cwd_rel[1]
                   ELSE <<"~">>
        account ==
            IF config.auth # <<>> /\ config.auth[1].tokens # <<>>
            THEN LET auth == config.auth[1]
                     info == auth.tokens[1]
                 IN  << MkLine(<<RawSpan(<<"U+1F464", " ">>), Span(<<"A", "c", "c",
                     "o", "u", "n", "t">>, {"BOLD"})>>),
                        LineFromStr(<<" ", " ", "U+2022", " ", "S", "i", "g", "n",
                            "e", "d", " ", "i", "n", " ", "w", "i", "t", "h", " ",
                            "C", "h", "a", "t", "G", "P", "T">>) >>
                     \o (IF info.email # <<>>
                         THEN <<Spans2(<<" ", " ", "U+2022", " ", "L", "o", "g", "i",
                             "n", ":", " ">>, info.email[1])>> ELSE <<>>)
                     \o (IF auth.openai_api_key # <<>> /\ auth.openai_api_key[1] # <<>>
                         THEN <<LineFromStr(
                                  <<" ", " ", "U+2022", " ", "U", "s", "i", "n", "g",
                                      " ", "A", "P", "I", " ", "k", "e", "y", ".",
                                      " ", "R", "u", "n", " ", "c", "o", "d", "e",
                                      "x", " ", "l", "o", "g", "i", "n", " ", "t",
                                      "o", " ", "u", "s", "e", " ", "C", "h", "a",
                                      "t", "G", "P", "T", " ", "p", "l", "a", "n">>)>>
                         ELSE <<Spans2(<<" ", " ", "U+2022", " ", "P", "l", "a", "n",
                             ":", " ">>,
                                       IF info.plan # <<>> THEN title_case(info.plan[1])
                                       ELSE <<"U", "n", "k", "n", "o", "w", "n">>)>>)
                     \o <<BlankLine>>
            ELSE <<>>
        reff == Lookup(config.entries, <<"r", "e", "a", "s", "o", "n", "i", "n", "g",
            " ", "e", "f", "f", "o", "r", "t">>)
        rsum == Lookup(config.entries, <<"r", "e", "a", "s", "o", "n", "i", "n", "g",
            " ", "s", "u", "m", "m", "a", "r", "i", "e", "s">>)
        input_line ==
            MkLine(<< RawSpan(<<" ", " ", "U+2022", " ", "I", "n", "p", "u", "t", ":",
                " ">>), RawSpan(Decimal(NonCachedInput(usage))) >>
                   \o (IF usage.cached_input_tokens # <<>> /\ usage.cached_input_tokens[1] > 0
                       THEN <<RawSpan(<<" ", "(", "+",
                           " ">> \o Decimal(usage.cached_input_tokens[1])
                                      \o <<" ", "c", "a", "c", "h", "e", "d", ")">>)>>
                       ELSE <<>>))
    IN  ViewCell("StatusOutput",
          << LineFromSpan(Span(<<"/", "s", "t", "a", "t", "u", "s">>, {"fg:magenta"})),
             MkLine(<<RawSpan(<<"U+1F4C2", " ">>), Span(<<"W", "o", "r", "k", "s",
                 "p", "a", "c", "e">>, {"BOLD"})>>),
             Spans2(<<" ", " ", "U+2022", " ", "P", "a", "t", "h", ":", " ">>, cwd_str),
             Spans2(<<" ", " ", "U+2022", " ", "A", "p", "p", "r", "o", "v", "a", "l",
                 " ", "M", "o", "d", "e", ":", " ">>, Lookup(config.entries, <<"a",
                 "p", "p", "r", "o", "v", "a", "l">>)),
             Spans2(<<" ", " ", "U+2022", " ", "S", "a", "n", "d", "b", "o", "x", ":",
                 " ">>, SandboxName(config.sandbox_policy)),
             BlankLine >>
          \o account
          \o << MkLine(<<RawSpan(<<"U+1F9E0", " ">>), Span(<<"M", "o", "d", "e",
              "l">>, {"BOLD"})>>),
                Spans2(<<" ", " ", "U+2022", " ", "N", "a", "m", "e", ":",
                    " ">>, config.model),
                Spans2(<<" ", " ", "U+2022", " ", "P", "r", "o", "v", "i", "d", "e",
                    "r", ":", " ">>, pretty_provider_name(config.model_provider_id)) >>
          \o (IF reff # <<>> THEN <<Spans2(<<" ", " ", "U+2022", " ", "R", "e", "a",
              "s", "o", "n", "i", "n", "g", " ", "E", "f", "f", "o", "r", "t", ":",
              " ">>, title_case(reff))>>
              ELSE <<>>)
          \o (IF rsum # <<>> THEN <<Spans2(<<" ", " ", "U+2022", " ", "R", "e", "a",
              "s", "o", "n", "i", "n", "g", " ", "S", "u", "m", "m", "a", "r", "i",
              "e", "s", ":", " ">>, title_case(rsum))>>
              ELSE <<>>)
          \o << BlankLine,
                MkLine(<<RawSpan(<<"U+1F4CA", " ">>), Span(<<"T", "o", "k", "e", "n",
                    " ", "U", "s", "a", "g", "e">>, {"BOLD"})>>),
                input_line,
                Spans2(<<" ", " ", "U+2022", " ", "O", "u", "t", "p", "u", "t", ":",
                    " ">>, Decimal(usage.output_tokens)),
                Spans2(<<" ", " ", "U+2022", " ", "T", "o", "t", "a", "l", ":",
                    " ">>, Decimal(BlendedTotal(usage))),
                BlankLine >>)

\* The header of a plan update: the progress bar and the completed/total count.
PlanBarWidth == 10

Repeat(g, n) == [i \in 1..n |-> g]

\* A bar that truncates instead of rounding to nearest.
PlanFilledTruncated(completed, total) ==
    IF total > 0 THEN (completed * PlanBarWidth) \div total ELSE 0

PlanFilled(completed, total) ==
    IF total > 0 THEN (completed * PlanBarWidth + total \div 2) \div total ELSE 0

PlanEmpty(filled) == IF PlanBarWidth > filled THEN PlanBarWidth - filled ELSE 0

PlanCompleted(plan) == Cardinality({i \in 1..Len(plan) : plan[i].status = "Completed"})

PlanHeader(completed, total) ==
    LET filled == PlanFilled(completed, total)
        empty == PlanEmpty(filled)
    IN  MkLine(
          << RawSpan(<<"U+1F4CB">>),
             Span(<<" ", "U", "p", "d", "a", "t", "e", "d">>, {"BOLD", "fg:magenta"}),
             RawSpan(<<" ", "t", "o", " ", "d", "o", " ", "l", "i", "s", "t", " ",
                 "[">>) >>
          \o (IF filled > 0 THEN <<Span(Repeat("U+2588", filled), {"fg:green"})>> ELSE <<>>)
          \o (IF empty > 0 THEN <<Span(Repeat("U+2591", empty), {"fg:gray"})>> ELSE <<>>)
          \o << RawSpan(<<"]", " ">>),
                RawSpan(Decimal(completed) \o <<"/">> \o Decimal(total)) >>)

PlanStepLine(idx, item) ==
    MkLine(
      << RawSpan(IF idx = 1 THEN AnglePipePrefix ELSE IndentPrefix),
         IF item.status = "Completed" THEN Span(<<"U+2714">>, {"fg:green"}) ELSE RawSpan(<<"U+25A1">>),
         RawSpan(<<" ">>),
         CASE item.status = "Completed" -> Span(item.step, {"fg:gray", "CROSSED_OUT", "DIM"})
           [] item.status = "InProgress" -> Span(item.step, {"fg:blue", "BOLD"})
           [] item.status = "Pending" -> Span(item.step, {"fg:gray", "DIM"}) >>)

\* update: [explanation (Option), plan (steps [step, status])].
new_plan_update(update) ==
    LET plan == update.plan
        expl == IF update.explanation = <<>> THEN <<>> ELSE StrTrim(update.explanation[1])
    IN  ViewCell("PlanUpdate",
          <<PlanHeader(PlanCompleted(plan), Len(plan))>>
          \o (IF expl # <<>>
              THEN <<LineFromSpan(Span(<<"n", "o", "t", "e">>, {"fg:gray", "ITALIC"}))>>
                   \o [i \in 1..Len(StrLines(expl)) |->
                         LineWithStyle(LineFromStr(StrLines(expl)[i]), {"fg:gray"})]
              ELSE <<>>)
          \o (IF plan = <<>>
              THEN <<LineFromSpan(Span(<<"(", "n", "o", " ", "s", "t", "e", "p", "s",
                  " ", "p", "r", "o", "v", "i", "d", "e", "d", ")">>, {"fg:gray",
                  "ITALIC"}))>>
              ELSE [i \in 1..Len(plan) |-> PlanStepLine(i, plan[i])])
          \o <<BlankLine>>)

\* The title new_patch_event passes to create_diff_summary.
PatchTitle(event_type) ==
    IF event_type.kind = "ApprovalRequest" THEN <<"p", "r", "o", "p", "o", "s", "e",
        "d", " ", "p", "a", "t", "c", "h">>
    ELSE <<"U+270FU+FE0F", " ", "A", "p", "p", "l", "y", "i", "n", "g", " ", "p", "a",
        "t", "c", "h">>

\* A patch event that shows the diff summary under the banner of a manually
\* approved apply-begin too.
new_patch_event_always_summarised(event_type, summary_lines) ==
    IF event_type.kind = "ApplyBegin" /\ ~event_type.auto_approved
    THEN ViewCell("PendingPatch",
           <<LineFromSpan(Span(<<"U+270FU+FE0F", " ", "A", "p", "p", "l", "y", "i",
               "n", "g", " ", "p", "a", "t", "c", "h">>, {"fg:magenta", "BOLD"}))>>
           \o summary_lines \o <<BlankLine>>)
    ELSE ViewCell("PendingPatch", summary_lines \o <<BlankLine>>)

\* diff_render::create_diff_summary is a collaborator: summary_lines is what it
\* returned for (title, changes).  ApplyBegin { auto_approved: false } returns
\* before it is called.
new_patch_event(event_type, summary_lines) ==
    IF event_type.kind = "ApplyBegin" /\ ~event_type.auto_approved
    THEN ViewCell("PendingPatch",
           << LineFromSpan(Span(<<"U+270FU+FE0F", " ", "A", "p", "p", "l", "y", "i",
               "n", "g", " ", "p", "a", "t", "c", "h">>, {"fg:magenta", "BOLD"})),
              BlankLine >>)
    ELSE ViewCell("PendingPatch", summary_lines \o <<BlankLine>>)

\* A failure cell whose count of remaining lines misses one line, as if taking
\* the first lines had consumed one more.
new_patch_apply_failure_short_count(stderr) ==
    LET all == StrLines(stderr)
        shown == IF Len(all) < TOOL_CALL_MAX_LINES THEN Len(all) ELSE TOOL_CALL_MAX_LINES
        remaining == IF Len(all) > shown THEN Len(all) - shown - 1 ELSE 0
    IN  ViewCell("PatchApplyResult",
          <<LineFromSpan(Span(<<"U+2718", " ", "F", "a", "i", "l", "e", "d", " ", "t",
              "o", " ", "a", "p", "p", "l", "y", " ", "p", "a", "t", "c",
              "h">>, {"fg:magenta", "BOLD"}))>>
          \o (IF StrTrim(stderr) # <<>>
              THEN [i \in 1..shown |->
                      LineWithStyle(
                          ansi_escape_line(
                              (IF i = 1 THEN AnglePipePrefix ELSE IndentPrefix) \o all[i]),
                          {"DIM"})]
                   \o (IF remaining > 0
                       THEN << BlankLine,
                               LineWithStyle(
                                   LineFromStr(<<".", ".", ".", " ",
                                       "+">> \o Decimal(remaining) \o <<" ", "l", "i",
                                       "n", "e", "s">>),
                                   {"DIM"}) >>
                       ELSE <<>>)
              ELSE <<>>)
          \o <<BlankLine>>)

new_patch_apply_failure(stderr) ==
    LET all == StrLines(stderr)
        shown == IF Len(all) < TOOL_CALL_MAX_LINES THEN Len(all) ELSE TOOL_CALL_MAX_LINES
        remaining == Len(all) - shown
    IN  ViewCell("PatchApplyResult",
          <<LineFromSpan(Span(<<"U+2718", " ", "F", "a", "i", "l", "e", "d", " ", "t",
              "o", " ", "a", "p", "p", "l", "y", " ", "p", "a", "t", "c",
              "h">>, {"fg:magenta", "BOLD"}))>>
          \o (IF StrTrim(stderr) # <<>>
              THEN [i \in 1..shown |->
                      LineWithStyle(
                          ansi_escape_line(
                              (IF i = 1 THEN AnglePipePrefix ELSE IndentPrefix) \o all[i]),
                          {"DIM"})]
                   \o (IF remaining > 0
                       THEN << BlankLine,
                               LineWithStyle(
                                   LineFromStr(<<".", ".", ".", " ",
                                       "+">> \o Decimal(remaining) \o <<" ", "l", "i",
                                       "n", "e", "s">>),
                                   {"DIM"}) >>
                       ELSE <<>>)
              ELSE <<>>)
          \o <<BlankLine>>)

\* A simple text line cell for streaming messages.
new_text_line(line) == ViewCell("BackgroundEvent", <<line>>)

\* HistoryCell::AnimatedWelcome { start_time: Instant::now(), completed: Cell::new(false) }
new_animated_welcome(instant) ==
    [tag |-> "AnimatedWelcome", start_time |-> instant, completed |-> FALSE]

(***************************************************************************)
(* plain_lines, desired_height and render_ref.                             *)
(***************************************************************************)
ViewTags ==
    {"WelcomeMessage", "UserPrompt", "BackgroundEvent", "GitDiffOutput", "ReasoningOutput",
     "StatusOutput", "PromptsOutput", "ErrorEvent", "SessionInfo", "CompletedMcpToolCall",
     "PendingPatch", "PlanUpdate", "PatchApplyResult", "ActiveMcpToolCall"}

\* line_to_static / span_to_static: an owned copy of a line.
span_to_static(span) == [style |-> span.style, content |-> span.content]

line_to_static(line) ==
    [style |-> line.style,
     spans |-> [i \in 1..Len(line.spans) |-> span_to_static(line.spans[i])]]

\* Welcome lines that appear only once the animation is over.
AnimatedWelcomeLinesLatched(c) ==
    IF c.completed
    THEN <<LineFromStr(<<>>), LineFromStr(<<"W", "e", "l", "c", "o", "m", "e", " ",
        "t", "o", " ", "C", "o", "d", "e", "r">>), LineFromStr(<<>>)>>
    ELSE <<>>

\* plain_lines of HistoryCell::AnimatedWelcome { .. }
AnimatedWelcomeLines(c) ==
    <<LineFromStr(<<>>), LineFromStr(<<"W", "e", "l", "c", "o", "m", "e", " ", "t",
        "o", " ", "C", "o", "d", "e", "r">>), LineFromStr(<<>>)>>

plain_lines(c) ==
    CASE c.tag = "AnimatedWelcome" -> AnimatedWelcomeLines(c)
      [] c.tag \in ViewTags -> [i \in 1..Len(c.view) |-> line_to_static(c.view[i])]
      [] c.tag = "Exec" -> exec_command_lines(c.command, c.parsed, c.output)
      [] c.tag = "CompletedMcpToolCallWithImageOutput" ->
            <<LineFromStr(<<"t", "o", "o", "l", " ", "r", "e", "s", "u", "l", "t",
                " ", "(", "i", "m", "a", "g", "e", " ", "o", "u", "t", "p", "u", "t",
                " ", "o", "m", "i", "t", "t", "e", "d", ")">>), LineFromStr(<<>>)>>

\* A height that counts the lines without wrapping them.
desired_height_unwrapped(c, width) ==
    IF c.tag = "AnimatedWelcome" THEN AnimatedWelcomeHeight
    ELSE TryIntoU16OrZero(Len(plain_lines(c)))

\* Paragraph::new(Text::from(self.plain_lines())).wrap(Wrap { trim: false }),
\* the paragraph desired_height counts the lines of.
HeightParagraph(c) == Paragraph(plain_lines(c), [trim |-> FALSE])

\* A height that wraps the plain lines of every variant.
desired_height_of_lines(c, width) == TryIntoU16OrZero(LineCount(HeightParagraph(c), width))

desired_height(c, width) ==
    IF c.tag = "AnimatedWelcome" THEN AnimatedWelcomeHeight
    ELSE TryIntoU16OrZero(LineCount(HeightParagraph(c), width))

\* Paragraph::new(Text::from(self.plain_lines())).wrap(Wrap { trim: false })
\*     .style(Style::default().fg(colors::text()).bg(colors::background())),
\* the paragraph render_ref paints of a cell that is not animated.
RenderParagraph(c) ==
    [text |-> plain_lines(c), wrap |-> [trim |-> FALSE],
     style |-> {"fg:text", "bg:background"}]

(***************************************************************************)
(* Time.  A Duration is [secs, nanos] with nanos < NANOS_PER_SEC, an       *)
(* Instant the Duration since the clock's origin.  An f32 is [m, e] for    *)
(* the value m * 2^e, with 2^23 <= m < 2^24, or F32Zero; arithmetic        *)
(* rounds to nearest, ties to even.                                        *)
(***************************************************************************)
NANOS_PER_SEC == 1000000000

Duration(secs, nanos) == [secs |-> secs, nanos |-> nanos]

\* Duration::from_secs
from_secs(secs) == Duration(secs, 0)

\* a < b on Durations
DurationLess(a, b) == a.secs < b.secs \/ (a.secs = b.secs /\ a.nanos < b.nanos)

\* later.duration_since(earlier), zero when later is not later
DurationSince(later, earlier) ==
    IF DurationLess(later, earlier) THEN Duration(0, 0)
    ELSE IF later.nanos >= earlier.nanos
    THEN Duration(later.secs - earlier.secs, later.nanos - earlier.nanos)
    ELSE Duration(later.secs - earlier.secs - 1,
                  later.nanos + NANOS_PER_SEC - earlier.nanos)

F32Zero == [m |-> 0, e |-> 0]

RECURSIVE BitLength(_)
BitLength(n) == IF n = 0 THEN 0 ELSE 1 + BitLength(n \div 2)

\* n / 2^k rounded to nearest, ties to even; sticky says that the exact value
\* lies above n.
RoundShift(n, k, sticky) ==
    IF (n % (2 ^ k)) * 2 > 2 ^ k
       \/ ((n % (2 ^ k)) * 2 = 2 ^ k /\ (sticky \/ (n \div (2 ^ k)) % 2 = 1))
    THEN (n \div (2 ^ k)) + 1
    ELSE n \div (2 ^ k)

\* The f32 nearest to n * 2^e (or to a value just above it, when sticky);
\* n > 0, and n has more than 24 bits when sticky.
F32Round(n, e, sticky) ==
    IF BitLength(n) <= 24
    THEN [m |-> n * (2 ^ (24 - BitLength(n))), e |-> e - (24 - BitLength(n))]
    ELSE IF RoundShift(n, BitLength(n) - 24, sticky) = 2 ^ 24
    THEN [m |-> 2 ^ 23, e |-> e + (BitLength(n) - 24) + 1]
    ELSE [m |-> RoundShift(n, BitLength(n) - 24, sticky), e |-> e + (BitLength(n) - 24)]

\* n as f32
F32FromInt(n) == IF n = 0 THEN F32Zero ELSE F32Round(n, 0, FALSE)

\* bits more quotient bits of (q + r / d): <<quotient, remainder>>
RECURSIVE LongDivision(_, _, _, _)
LongDivision(q, r, d, bits) ==
    IF bits = 0 THEN <<q, r>>
    ELSE LongDivision(2 * q + ((2 * r) \div d), (2 * r) % d, d, bits - 1)

F32DivRounded(qr, e) == F32Round(qr[1], e, qr[2] # 0)

\* a / b in f32, b # 0
F32Div(a, b) ==
    IF a.m = 0 THEN F32Zero
    ELSE F32DivRounded(LongDivision(a.m \div b.m, a.m % b.m, b.m, 25), a.e - b.e - 25)

\* hi + lo in f32 for hi.e >= lo.e, both nonzero: hi keeps three guard bits,
\* lo is aligned to them, the bits of lo below them are sticky.
F32AddAligned(hi, lo, shift) ==
    IF shift <= 0 THEN F32Round(hi.m * 8 + lo.m * (2 ^ (0 - shift)), hi.e - 3, FALSE)
    ELSE IF shift >= 30 THEN F32Round(hi.m * 8, hi.e - 3, TRUE)
    ELSE F32Round(hi.m * 8 + (lo.m \div (2 ^ shift)), hi.e - 3, lo.m % (2 ^ shift) # 0)

\* a + b in f32
F32Add(a, b) ==
    IF a.m = 0 THEN b
    ELSE IF b.m = 0 THEN a
    ELSE IF a.e >= b.e THEN F32AddAligned(a, b, a.e - 3 - b.e)
    ELSE F32AddAligned(b, a, b.e - 3 - a.e)

\* a < b on f32 values
F32Less(a, b) ==
    IF b.m = 0 THEN FALSE
    ELSE IF a.m = 0 THEN TRUE
    ELSE a.e < b.e \/ (a.e = b.e /\ a.m < b.m)

F32One == F32FromInt(1)

\* Duration::as_secs_f32: (secs as f32) + (nanos as f32) / (NANOS_PER_SEC as f32)
as_secs_f32(d) ==
    F32Add(F32FromInt(d.secs), F32Div(F32FromInt(d.nanos), F32FromInt(NANOS_PER_SEC)))

\* animation_duration = Duration::from_secs(2)
AnimationDuration == from_secs(AnimationSecs)

\* Instant::elapsed
Elapsed(start_time) == DurationSince(now, start_time)

\* An animating branch that is still taken at exactly two seconds.
StillAnimatingInclusive(c) ==
    ~DurationLess(AnimationDuration, Elapsed(c.start_time)) /\ ~c.completed

\* The branch render_ref takes for an AnimatedWelcome cell.
StillAnimating(c) ==
    DurationLess(Elapsed(c.start_time), AnimationDuration) /\ ~c.completed

\* The progress handed to render_intro_animation, an f32.
RenderProgress(c) ==
    IF StillAnimating(c)
    THEN F32Div(as_secs_f32(Elapsed(c.start_time)), as_secs_f32(AnimationDuration))
    ELSE F32One

\* A render that flips the latch instead of setting it.
RenderedCellFlipped(c) ==
    IF c.tag = "AnimatedWelcome" /\ ~StillAnimating(c)
    THEN [c EXCEPT !.completed = ~c.completed]
    ELSE c

\* A render that restarts the clock of the animation when it sets the latch.
RenderedCellRestarted(c) ==
    IF c.tag = "AnimatedWelcome" /\ ~StillAnimating(c)
    THEN [c EXCEPT !.completed = TRUE, !.start_time = now]
    ELSE c

\* The cell after render_ref: completed.set(true) on the final-frame branch.
RenderedCell(c) ==
    IF c.tag = "AnimatedWelcome" /\ ~StillAnimating(c)
    THEN [c EXCEPT !.completed = TRUE]
    ELSE c

(***************************************************************************)
(* The inputs of the model.                                                *)
(***************************************************************************)
Letters == <<"a", "b", "c", "d", "e", "f", "g", "h", "i", "j", "k", "l", "m", "n",
    "o", "p", "q", "r", "s", "t", "u", "v", "w", "x", "y", "z">>

\* An output stream of n lines; line i is the stream's tag followed by the
\* i-th letter, so every line names its stream and its position.
StreamText(tag, n, final_newline) ==
    LET ls == [i \in 1..n |-> <<tag, Letters[i]>>]
    IN  JoinWith(ls, <<LF>>) \o (IF final_newline /\ n > 0 THEN <<LF>> ELSE <<>>)

Widths == 0..MaxWidth \cup {WideWidth}

\* The instants at which the clock is read: the half seconds up to 2.5 s, and
\* instants shortly before the animation's two seconds are over.
ClockInstants ==
    { Duration(0, 0), Duration(0, 500000000), Duration(1, 0), Duration(1, 500000000),
      Duration(1, 999999880), Duration(1, 999999999), Duration(2, 0),
      Duration(2, 500000000) }

\* Messages whose only control character is the line feed.
PlainMessages ==
    { <<>>, <<"a">>, <<"a", LF>>, <<"a", LF, LF>>, <<LF>>, <<" ", LF>>,
      <<"a", "b", " ", "c", LF, "d">> }

\* Messages that are split by str::lines, which strips the carriage return of
\* a CR LF line ending.
LineMessages == PlainMessages \cup { <<"a", CR, LF, "b">> }

\* Messages that pass through str::lines and ansi_escape_line, which turns SGR
\* sequences into styles.
Messages == LineMessages \cup { SgrBold \o <<"a">> \o SgrReset \o <<"b">> }

Models == { <<"o", "3">>, <<"g", "p", "t">> }

\* (stdout lines, stderr lines) of the completed commands of the model
OutputPairs == {<<n, MaxSrcLines - n>> : n \in 0..MaxSrcLines}

CommandOutputs ==
    { [exit_code |-> e, stdout |-> StreamText("o", p[1], nl), stderr |-> StreamText("e", p[2], nl)] :
        e \in {0, 1}, p \in OutputPairs, nl \in {TRUE} }
    \cup { [exit_code |-> e, stdout |-> <<"o", "a", LF, LF, "o", "c">>,
            stderr |-> SgrBold \o <<"e", "a">> \o SgrReset \o <<LF, "e",
                "b">>] : e \in {0, 2} }

SmallOutputs ==
    { [exit_code |-> 0, stdout |-> StreamText("o", 2, FALSE), stderr |-> StreamText("e", 1, TRUE)],
      [exit_code |-> 1, stdout |-> StreamText("o", 2, FALSE), stderr |-> StreamText("e", 1, TRUE)] }

Commands ==
    { <<>>, <<<<"l", "s">>>>, <<<<"l", "s">>, <<"a", " ", "b">>>>, <<<<"b", "a", "s",
        "h">>, <<"-", "l", "c">>, <<"a", LF, "b", " ", "c">>>>,
      <<<<"b", "a", "s", "h">>, <<"-", "l", "c">>, <<>>>> }

ParsedCommands ==
    { [kind |-> "Read", name |-> <<"f", ".", "r", "s">>],
      [kind |-> "ListFiles", cmd |-> <<<<"l", "s">>>>, path |-> <<>>],
      [kind |-> "ListFiles", cmd |-> <<<<"l", "s">>, <<"d">>>>, path |-> <<<<"d">>>>],
      [kind |-> "Search", query |-> <<<<"q">>>>, path |-> <<<<"p">>>>, cmd |-> <<<<"r", "g">>>>],
      [kind |-> "Search", query |-> <<<<"q">>>>, path |-> <<>>, cmd |-> <<<<"r",
          "g">>>>],
      [kind |-> "Search", query |-> <<>>, path |-> <<<<"p">>>>, cmd |-> <<<<"r",
          "g">>>>],
      [kind |-> "Search", query |-> <<>>, path |-> <<>>, cmd |-> <<<<"r",
          "g">>, <<"a", " ", "b">>>>],
      [kind |-> "Format"],
      [kind |-> "Test", cmd |-> <<<<"t">>>>],
      [kind |-> "Lint", cmd |-> <<<<"l">>>>],
      [kind |-> "Unknown", cmd |-> <<<<"x">>, <<>>>>] }

ParsedLists ==
    {<<p>> : p \in ParsedCommands}
    \cup { <<[kind |-> "Read", name |-> <<"f", ".", "r", "s">>], [kind |-> "Format"]>>,
           <<[kind |-> "Format"], [kind |-> "Test", cmd |-> <<<<"t">>>>],
             [kind |-> "Read", name |-> <<"g">>]>> }

\* (command, parsed, output) of the Exec cells: every output on both paths
\* with one command, every command and parse with a few outputs.
\* The outputs at the ends and around the truncation limit.
EdgeOutputs ==
    { o \in CommandOutputs :
        Len(StrLines(o.stdout)) \in {0, 2, 2 * TOOL_CALL_MAX_LINES, MaxSrcLines - 1, MaxSrcLines} }

ExecInputs ==
    { <<<<<<"l", "s">>>>, <<>>, o>> : o \in EdgeOutputs }
    \cup { <<<<<<"l", "s">>>>, <<[kind |-> "Format"]>>, o>> : o \in EdgeOutputs }
    \cup { <<c, <<>>, o>> : c \in Commands, o \in SmallOutputs }
    \cup { <<<<<<"l", "s">>>>, p, o>> : p \in ParsedLists, o \in SmallOutputs }

Invocations ==
    { [server |-> <<"s", "r", "v">>, tool |-> <<"t">>, arguments |-> <<>>],
      [server |-> <<"s", "r",
          "v">>, tool |-> <<"t">>, arguments |-> <<[kind |-> "null"]>>],
      [server |-> <<>>, tool |-> <<"t">>, arguments |-> <<[kind |-> "number", n |-> 42]>>],
      [server |-> <<"s">>, tool |-> <<"t">>, arguments |-> <<[kind |-> "string", s |-> <<"a", " ", "b">>]>>] }

ImageBlocks ==
    { [kind |-> "Image", data |-> d] :
        d \in {"valid_png", "truncated_base64", "unreadable_bytes", "corrupt_png"} }

OtherBlocks ==
    { [kind |-> "Text", text |-> <<>>],
      [kind |-> "Text", text |-> <<"h", "e", "l", "l", "o", " ", "w", "o", "r", "l",
          "d">>],
      [kind |-> "Text", text |-> <<"a", LF, "b">>],
      [kind |-> "Audio"],
      [kind |-> "EmbeddedResource", uri |-> <<"u", ":", "1">>],
      [kind |-> "ResourceLink", uri |-> <<"u", ":", "2">>] }

ToolResults ==
    { [ok |-> TRUE, content |-> <<>>] }
    \cup { [ok |-> TRUE, content |-> <<b>>] : b \in ImageBlocks \cup OtherBlocks }
    \cup { [ok |-> TRUE, content |-> <<b, c>>] :
             b \in ImageBlocks, c \in {[kind |-> "Audio"], [kind |-> "Image", data |-> "valid_png"]} }
    \cup { [ok |-> TRUE, content |-> <<[kind |-> "Audio"], b>>] : b \in ImageBlocks \cup OtherBlocks }
    \cup { [ok |-> TRUE,
             content |-> << [kind |-> "EmbeddedResource", uri |-> <<"u", ":", "1">>],
                            [kind |-> "ResourceLink", uri |-> <<"u", ":", "2">>],
                            [kind |-> "Audio"] >>] }
    \cup { [ok |-> FALSE, err |-> e] : e \in {<<>>, <<"b", "o", "o",
        "m">>, <<"a", LF>>} }

BaseInvocation == [server |-> <<"s", "r", "v">>, tool |-> <<"t">>, arguments |-> <<>>]
TextResult == [ok |-> TRUE, content |-> <<[kind |-> "Text", text |-> <<"h", "e", "l",
    "l", "o", " ", "w", "o", "r", "l", "d">>]>>]

\* (num_cols, invocation, duration in ms, success, result)
McpInputs ==
    { <<4, BaseInvocation, 50, r.ok, r>> : r \in ToolResults }
    \cup { <<4, BaseInvocation, 50, ~r.ok, r>> :
             r \in {TextResult, [ok |-> FALSE, err |-> <<"b", "o", "o", "m">>]} }
    \cup { <<n, BaseInvocation, 50, TRUE, TextResult>> : n \in {0, 1, 2, 80} }
    \cup { <<4, i, 50, TRUE, TextResult>> : i \in Invocations }
    \cup { <<4, BaseInvocation, d, TRUE, TextResult>> : d \in {0, 1500, 61000} }

BaseConfig ==
    [cwd_display |-> <<"/",
        "w">>, cwd_rel |-> <<>>, entries |-> <<>>, sandbox_policy |-> "ReadOnly",
     model |-> <<"o", "3">>, model_provider_id |-> <<"O", "p", "e", "n", "A",
         "I">>, auth |-> <<>>]

StatusConfigs ==
    { [BaseConfig EXCEPT !.cwd_rel = rel] : rel \in {<<>>, <<<<>>>>, <<<<"w">>>>} }
    \cup
    { [BaseConfig EXCEPT
         !.entries = << <<<<"a", "p", "p", "r", "o", "v", "a", "l">>, <<"n", "e", "v",
             "e", "r">>>>, <<<<"r", "e", "a", "s", "o", "n", "i", "n", "g", " ", "e",
             "f", "f", "o", "r", "t">>, <<"h", "I", "G", "H">>>>,
                        <<<<"r", "e", "a", "s", "o", "n", "i", "n", "g", " ", "s",
                            "u", "m", "m", "a", "r", "i", "e", "s">>, <<"a", "u", "t",
                            "o">>>> >>,
         !.sandbox_policy = "WorkspaceWrite",
         !.model_provider_id = <<"o", "s", "s">>],
      [BaseConfig EXCEPT !.sandbox_policy = "DangerFullAccess", !.model_provider_id = <<>>] }
    \cup
    { [BaseConfig EXCEPT !.auth = au] :
        au \in { <<[tokens |-> <<>>, openai_api_key |-> <<>>]>>,
                 <<[tokens |-> <<[email |-> <<<<"a", "@", "b">>>>, plan |-> <<<<"p",
                     "R", "O">>>>]>>,
                    openai_api_key |-> <<>>]>>,
                 <<[tokens |-> <<[email |-> <<>>, plan |-> <<>>]>>,
                    openai_api_key |-> <<<<>>>>]>>,
                 <<[tokens |-> <<[email |-> <<>>, plan |-> <<>>]>>,
                    openai_api_key |-> <<<<"s", "k">>>>]>> } }

BaseUsage == [input_tokens |-> 12, cached_input_tokens |-> <<5>>, output_tokens |-> 100]

TokenUsages ==
    { [input_tokens |-> 12, cached_input_tokens |-> <<>>, output_tokens |-> 3],
      [input_tokens |-> 12, cached_input_tokens |-> <<0>>, output_tokens |-> 0],
      [input_tokens |-> 12, cached_input_tokens |-> <<5>>, output_tokens |-> 100] }

\* (config, usage)
StatusInputs ==
    { <<c, BaseUsage>> : c \in StatusConfigs }
    \cup { <<BaseConfig, u>> : u \in TokenUsages }

StepStatuses == {"Pending", "InProgress", "Completed"}

\* Plans of up to MaxPlanSteps steps, every combination of statuses.
Plans ==
    UNION { [1..n -> {[step |-> <<Letters[19]>>, status |-> st] : st \in StepStatuses}] :
              n \in 0..MaxPlanSteps }

Explanations == { <<>>, <<<<>>>>, <<<<" ", LF>>>>, <<<<"w", "h", "y">>>>, <<<<" ",
    "a", LF, "b", " ">>>> }

PlanUpdates ==
    { [explanation |-> <<>>, plan |-> p] : p \in Plans }
    \cup { [explanation |-> e, plan |-> p] :
             e \in Explanations, p \in {<<>>, <<[step |-> <<"d", "o", " ", "i",
                 "t">>, status |-> "InProgress"]>>} }

PatchEventTypes ==
    { [kind |-> "ApprovalRequest"] }
    \cup { [kind |-> "ApplyBegin", auto_approved |-> b] : b \in BOOLEAN }

\* What create_diff_summary may return for a title.
DiffSummaries(title) ==
    { <<>>,
      <<LineFromStr(title)>>,
      <<LineFromStr(title), LineFromSpan(Span(<<"A", " ", "f", ".", "r",
          "s">>, {"fg:green"}))>>,
      <<LineFromStr(title), LineFromStr(<<"M", " ", "a", " ", "b">>), BlankLine>> }

TextLines ==
    { BlankLine, LineFromStr(<<"a", "b", " ", "c", "d">>), DimSpanLine(<<>>),
      MkLine(<<RawSpan(<<"a">>), Span(<<" ", "b">>, {"BOLD"})>>) }

(***************************************************************************)
(* The state machine.  cell is the cell under observation (NoCell before   *)
(* its construction), now the clock, input the constructor call that built *)
(* the cell, last the latest query or render with its result.              *)
(***************************************************************************)
Init ==
    /\ cell = NoCell
    /\ now = Duration(0, 0)
    /\ input = [ctor |-> "none"]
    /\ last = [op |-> "none"]

\* The clock advances to a later instant.  Only an AnimatedWelcome cell reads
\* the clock, so time passes only while such a cell is observed.
Tick ==
    /\ cell.tag = "AnimatedWelcome"
    /\ \E t \in ClockInstants : DurationLess(now, t) /\ now' = t
    /\ UNCHANGED <<cell, input, last>>

\* A constructor call: the cell it returns becomes the cell under observation.
\* Each run of the model observes one cell, so a constructor is called only
\* while there is none.
Construct(ctor, args, c) ==
    /\ cell' = c
    /\ input' = [ctor |-> ctor, args |-> args]
    /\ last' = [op |-> "new"]
    /\ UNCHANGED now

NewAnimatedWelcome ==
    /\ cell = NoCell
    /\ Construct("new_animated_welcome", <<now>>, new_animated_welcome(now))

NewSessionInfo ==
    /\ cell = NoCell
    /\ \E config_model \in Models, event_model \in {<<"o",
        "3">>}, is_first_event \in BOOLEAN :
           Construct("new_session_info", <<config_model, event_model, is_first_event>>,
                     new_session_info(config_model, event_model, is_first_event))

NewUserPrompt ==
    /\ cell = NoCell
    /\ \E message \in LineMessages :
           Construct("new_user_prompt", <<message>>, new_user_prompt(message))

NewActiveExecCommand ==
    /\ cell = NoCell
    /\ \E command \in Commands, parsed \in {<<>>, <<[kind |-> "Format"]>>} :
           Construct("new_active_exec_command", <<command, parsed>>,
                     new_active_exec_command(command, parsed))

NewCompletedExecCommand ==
    /\ cell = NoCell
    /\ \E i \in {e \in ExecInputs : e[3] # NoOutput} :
           Construct("new_completed_exec_command", i,
                     new_completed_exec_command(i[1], i[2], i[3]))

NewActiveMcpToolCall ==
    /\ cell = NoCell
    /\ \E invocation \in Invocations :
           Construct("new_active_mcp_tool_call", <<invocation>>,
                     new_active_mcp_tool_call(invocation))

NewCompletedMcpToolCall ==
    /\ cell = NoCell
    /\ \E i \in McpInputs :
           Construct("new_completed_mcp_tool_call", i,
                     new_completed_mcp_tool_call(i[1], i[2], i[3], i[4], i[5]))

NewBackgroundEvent ==
    /\ cell = NoCell
    /\ \E message \in Messages :
           Construct("new_background_event", <<message>>, new_background_event(message))

NewDiffOutput ==
    /\ cell = NoCell
    /\ \E message \in Messages :
           Construct("new_diff_output", <<message>>, new_diff_output(message))

NewReasoningOutput ==
    /\ cell = NoCell
    /\ \E effort \in {"Low", "Medium", "High", "None"} :
           Construct("new_reasoning_output", <<effort>>, new_reasoning_output(effort))

NewStatusOutput ==
    /\ cell = NoCell
    /\ \E i \in StatusInputs :
           Construct("new_status_output", i, new_status_output(i[1], i[2]))

NewPromptsOutput ==
    /\ cell = NoCell
    /\ Construct("new_prompts_output", <<>>, new_prompts_output)

NewErrorEvent ==
    /\ cell = NoCell
    /\ \E message \in PlainMessages :
           Construct("new_error_event", <<message>>, new_error_event(message))

NewPlanUpdate ==
    /\ cell = NoCell
    /\ \E update \in PlanUpdates :
           Construct("new_plan_update", <<update>>, new_plan_update(update))

NewPatchEvent ==
    /\ cell = NoCell
    /\ \E event_type \in PatchEventTypes :
           \E summary_lines \in DiffSummaries(PatchTitle(event_type)) :
               Construct("new_patch_event", <<event_type, summary_lines>>,
                         new_patch_event(event_type, summary_lines))

NewPatchApplyFailure ==
    /\ cell = NoCell
    /\ \E stderr \in Messages \cup {StreamText("e", n, FALSE) : n \in 4..7} :
           Construct("new_patch_apply_failure", <<stderr>>, new_patch_apply_failure(stderr))

NewTextLine ==
    /\ cell = NoCell
    /\ \E line \in TextLines : Construct("new_text_line", <<line>>, new_text_line(line))

\* A diff summary that fills rows - 1 rows of a terminal one column wide:
\* lines of LongLineLen graphemes, and a shorter last line for the rest.
LongSummary(rows) ==
    LET full == (rows - 1) \div LongLineLen
        rest == (rows - 1) % LongLineLen
    IN  [i \in 1..(full + (IF rest > 0 THEN 1 ELSE 0)) |->
            LineFromSpan(RawSpan([j \in 1..(IF i <= full THEN LongLineLen ELSE rest) |->
                                     "+"]))]

\* new_patch_event for a patch whose diff summary is long: with the blank line
\* that ends the cell, its view fills rows rows at width 1.
NewLongPatchEvent ==
    /\ cell = NoCell
    /\ \E rows \in LongRowCounts :
           Construct("new_patch_event", <<[kind |-> "ApprovalRequest"], LongSummary(rows)>>,
                     new_patch_event([kind |-> "ApprovalRequest"], LongSummary(rows)))

\* cell.plain_lines()
PlainLines ==
    /\ cell # NoCell
    /\ last' = [op |-> "plain_lines", lines |-> plain_lines(cell)]
    /\ UNCHANGED <<cell, now, input>>

\* cell.desired_height(width)
DesiredHeight ==
    /\ cell # NoCell
    /\ \E width \in Widths :
         last' = [op |-> "desired_height", width |-> width,
                  height |-> desired_height(cell, width)]
    /\ UNCHANGED <<cell, now, input>>

\* What render_ref shows of an AnimatedWelcome cell: the elapsed time and the
\* latch it reads, and the progress it hands to render_intro_animation.
AnimationFrame(c, area) ==
    [op |-> "render_ref", area |-> area, elapsed |-> Elapsed(c.start_time),
     was_completed |-> c.completed, progress |-> RenderProgress(c)]

\* (&cell).render_ref(area, buf)
RenderRef ==
    /\ cell # NoCell
    /\ \E area \in {[width |-> width, height |-> AreaHeight] : width \in Widths} :
         last' = IF cell.tag = "AnimatedWelcome"
                 THEN AnimationFrame(cell, area)
                 ELSE [op |-> "render_ref", area |-> area,
                       painted |-> PaintedRows(RenderParagraph(cell), area)]
    /\ cell' = RenderedCell(cell)
    /\ UNCHANGED <<now, input>>

Next ==
    \/ Tick
    \/ NewAnimatedWelcome
    \/ NewSessionInfo
    \/ NewUserPrompt
    \/ NewActiveExecCommand
    \/ NewCompletedExecCommand
    \/ NewActiveMcpToolCall
    \/ NewCompletedMcpToolCall
    \/ NewBackgroundEvent
    \/ NewDiffOutput
    \/ NewReasoningOutput
    \/ NewStatusOutput
    \/ NewPromptsOutput
    \/ NewErrorEvent
    \/ NewPlanUpdate
    \/ NewPatchEvent
    \/ NewPatchApplyFailure
    \/ NewTextLine
    \/ PlainLines
    \/ DesiredHeight
    \/ RenderRef

Spec == Init /\ [][Next]_vars

(***************************************************************************)
(* The AnimatedWelcome cell alone, created at any instant of the clock.    *)
(***************************************************************************)
InitWelcome ==
    /\ cell = NoCell
    /\ now \in ClockInstants
    /\ input = [ctor |-> "none"]
    /\ last = [op |-> "none"]

NextWelcome ==
    \/ Tick
    \/ NewAnimatedWelcome
    \/ PlainLines
    \/ DesiredHeight
    \/ RenderRef

WelcomeSpec == InitWelcome /\ [][NextWelcome]_vars

(***************************************************************************)
(* Exec cells alone.                                                       *)
(***************************************************************************)
NextExec ==
    \/ NewActiveExecCommand
    \/ NewCompletedExecCommand
    \/ PlainLines
    \/ DesiredHeight
    \/ RenderRef

ExecSpec == Init /\ [][NextExec]_vars

(***************************************************************************)
(* output_lines alone, applied once to each of its inputs.                 *)
(***************************************************************************)
OutputLinesInputs ==
    { <<output, only_err, include_angle_pipe>> :
        output \in CommandOutputs \cup {NoOutput},
        only_err \in BOOLEAN, include_angle_pipe \in BOOLEAN }

InitOutput ==
    /\ cell = NoCell
    /\ now = Duration(0, 0)
    /\ input \in {[ctor |-> "output_lines", args |-> i] : i \in OutputLinesInputs}
    /\ last = [op |-> "none"]

\* output_lines(output, only_err, include_angle_pipe)
OutputLines ==
    /\ input.ctor = "output_lines"
    /\ last.op = "none"
    /\ last' = [op |-> "output_lines",
                lines |-> output_lines(input.args[1], input.args[2], input.args[3])]
    /\ UNCHANGED <<cell, now, input>>

OutputSpec == InitOutput /\ [][OutputLines]_vars

(***************************************************************************)
(* Plan updates alone, of every length up to MaxBarSteps and every count   *)
(* of completed steps.                                                     *)
(***************************************************************************)
\* A plan of total steps, completed of them Completed and the others
\* alternately Pending and InProgress.
BarPlan(completed, total) ==
    [i \in 1..total |->
       [step |-> <<Letters[i]>>,
        status |-> IF i <= completed THEN "Completed"
                   ELSE IF i % 2 = 0 THEN "Pending" ELSE "InProgress"]]

BarPlanUpdates ==
    UNION { { [explanation |-> <<>>, plan |-> BarPlan(completed, total)] :
                completed \in 0..total } : total \in 0..MaxBarSteps }

NewPlanUpdateOfLength ==
    /\ cell = NoCell
    /\ \E update \in BarPlanUpdates :
           Construct("new_plan_update", <<update>>, new_plan_update(update))

NextPlan ==
    \/ NewPlanUpdateOfLength
    \/ NewPlanUpdate
    \/ PlainLines

PlanSpec == Init /\ [][NextPlan]_vars

(***************************************************************************)
(* Tool-call cells alone.                                                  *)
(***************************************************************************)
NextMcp ==
    \/ NewActiveMcpToolCall
    \/ NewCompletedMcpToolCall
    \/ PlainLines
    \/ DesiredHeight
    \/ RenderRef

McpSpec == Init /\ [][NextMcp]_vars

(***************************************************************************)
(* output_lines applied to its inputs, and the Exec cells that call it.    *)
(***************************************************************************)
InitOutputPaths ==
    /\ cell = NoCell
    /\ now = Duration(0, 0)
    /\ input \in {[ctor |-> "none"]}
                 \cup {[ctor |-> "output_lines", args |-> i] : i \in OutputLinesInputs}
    /\ last = [op |-> "none"]

NextOutputPaths ==
    \/ OutputLines
    \/ NewActiveExecCommand
    \/ NewCompletedExecCommand
    \/ PlainLines

OutputPathsSpec == InitOutputPaths /\ [][NextOutputPaths]_vars

(***************************************************************************)
(* Patch cells alone.                                                      *)
(***************************************************************************)
NextPatch ==
    \/ NewPatchEvent
    \/ NewPatchApplyFailure
    \/ PlainLines
    \/ DesiredHeight
    \/ RenderRef

PatchSpec == Init /\ [][NextPatch]_vars

(***************************************************************************)
(* The AnimatedWelcome cell under a redraw loop: time keeps advancing and  *)
(* render_ref keeps being called.                                          *)
(***************************************************************************)
\* A render made once the animation's two seconds are over, or of a cell whose
\* latch is set.
RenderAfterAnimation ==
    /\ cell.tag = "AnimatedWelcome"
    /\ ~StillAnimating(cell)
    /\ RenderRef

\* The clock does not stop, and the redraw loop does not stop calling
\* render_ref once the animation is over.
WelcomeRedrawSpec ==
    InitWelcome /\ [][NextWelcome]_vars /\ WF_vars(Tick) /\ WF_vars(RenderAfterAnimation)

(***************************************************************************)
(* The heights of the cells, those of patch events with a long diff        *)
(* summary included: each cell is asked for its height once, right after   *)
(* its construction.                                                       *)
(***************************************************************************)
FirstHeight == last.op = "new" /\ DesiredHeight

NextHeight ==
    \/ NewAnimatedWelcome
    \/ NewSessionInfo
    \/ NewUserPrompt
    \/ NewActiveExecCommand
    \/ NewCompletedExecCommand
    \/ NewActiveMcpToolCall
    \/ NewCompletedMcpToolCall
    \/ NewBackgroundEvent
    \/ NewDiffOutput
    \/ NewReasoningOutput
    \/ NewStatusOutput
    \/ NewPromptsOutput
    \/ NewErrorEvent
    \/ NewPlanUpdate
    \/ NewPatchEvent
    \/ NewLongPatchEvent
    \/ NewPatchApplyFailure
    \/ NewTextLine
    \/ FirstHeight

HeightSpec == Init /\ [][NextHeight]_vars

(***************************************************************************)
(* The spinner registry (spinners.rs): presets by name, looked up without  *)
(* regard to ASCII case, the first preset standing in for unknown names.   *)
(* A frame is a sequence of graphemes, those outside ASCII written by code *)
(* point.                                                                  *)
(***************************************************************************)
DIAMOND ==
    [name |-> <<"d", "i", "a", "m", "o", "n", "d">>,
     frames |-> <<<<"U+25C7">>, <<"U+25C6">>, <<"U+25C7">>>>,
     interval_ms |-> 150]

ALL ==
    << DIAMOND,
       [name |-> <<"d", "o", "t", "s">>,
        frames |-> <<<<"U+280B">>, <<"U+2819">>, <<"U+2839">>, <<"U+2838">>, <<"U+283C">>, <<"U+2834">>, <<"U+2826">>, <<"U+2827">>, <<"U+2807">>, <<"U+280F">>>>,
        interval_ms |-> 80],
       [name |-> <<"d", "o", "t", "s", "2">>,
        frames |-> <<<<"U+280B">>, <<"U+2819">>, <<"U+281A">>, <<"U+281E">>, <<"U+2816">>, <<"U+2826">>, <<"U+2834">>, <<"U+2832">>, <<"U+2833">>, <<"U+2813">>>>,
        interval_ms |-> 80],
       [name |-> <<"l", "i", "n", "e">>,
        frames |-> <<<<"-">>, <<"\\">>, <<"|">>, <<"/">>>>,
        interval_ms |-> 100],
       [name |-> <<"p", "i", "p", "e">>,
        frames |-> <<<<"U+2524">>, <<"U+2518">>, <<"U+2534">>, <<"U+2514">>, <<"U+251C">>, <<"U+250C">>, <<"U+252C">>, <<"U+2510">>>>,
        interval_ms |-> 100],
       [name |-> <<"s", "t", "a", "r">>,
        frames |-> <<<<"U+2736">>, <<"U+2738">>, <<"U+2739">>, <<"U+273A">>, <<"U+2739">>, <<"U+2737">>>>,
        interval_ms |-> 70],
       [name |-> <<"s", "i", "m", "p", "l", "e", "D", "o", "t", "s", "S", "c", "r",
           "o", "l", "l", "i", "n", "g">>,
        frames |-> <<<<".", " ", " ">>, <<".", ".", " ">>, <<".", ".", ".">>, <<" ",
            ".", ".">>, <<" ", " ", ".">>, <<" ", " ", " ">>>>,
        interval_ms |-> 200],
       [name |-> <<"b", "o", "u", "n", "c", "i", "n", "g", "B", "a", "r">>,
        frames |-> <<<<"[", " ", " ", " ", " ", "]">>, <<"[", "=", " ", " ", " ",
            "]">>, <<"[", "=", "=", " ", " ", "]">>, <<"[", "=", "=", "=", " ",
            "]">>, <<"[", " ", "=", "=", "=", "]">>, <<"[", " ", " ", "=", "=",
            "]">>, <<"[", " ", " ", " ", "=", "]">>, <<"[", " ", " ", " ", " ",
            "]">>, <<"[", " ", " ", " ", "=", "]">>, <<"[", " ", " ", "=", "=",
            "]">>, <<"[", " ", "=", "=", "=", "]">>, <<"[", "=", "=", "=", "=",
            "]">>, <<"[", "=", "=", "=", " ", "]">>, <<"[", "=", "=", " ", " ",
            "]">>, <<"[", "=", " ", " ", " ", "]">>>>,
        interval_ms |-> 80],
       [name |-> <<"b", "o", "u", "n", "c", "i", "n", "g", "B", "a", "l", "l">>,
        frames |-> <<<<"(", " ", "U+25CF", " ", " ", " ", " ", ")">>, <<"(", " ", " ",
            "U+25CF", " ", " ", " ", ")">>, <<"(", " ", " ", " ", "U+25CF", " ", " ",
            ")">>, <<"(", " ", " ", " ", " ", "U+25CF", " ", ")">>, <<"(", " ", " ",
            " ", " ", " ", "U+25CF", ")">>, <<"(", " ", " ", " ", " ", "U+25CF", " ",
            ")">>, <<"(", " ", " ", " ", "U+25CF", " ", " ", ")">>, <<"(", " ", " ",
            "U+25CF", " ", " ", " ", ")">>, <<"(", " ", "U+25CF", " ", " ", " ", " ",
            ")">>, <<"(", "U+25CF", " ", " ", " ", " ", " ", ")">>>>,
        interval_ms |-> 80],
       [name |-> <<"t", "o", "g", "g", "l", "e">>,
        frames |-> <<<<"U+22B6">>, <<"U+22B7">>>>,
        interval_ms |-> 120],
       [name |-> <<"h", "a", "m", "b", "u", "r", "g", "e", "r">>,
        frames |-> <<<<"U+2631">>, <<"U+2632">>, <<"U+2634">>>>,
        interval_ms |-> 100],
       [name |-> <<"g", "r", "o", "w", "V", "e", "r", "t", "i", "c", "a", "l">>,
        frames |-> <<<<"U+2581">>, <<"U+2583">>, <<"U+2584">>, <<"U+2585">>, <<"U+2586">>, <<"U+2587">>, <<"U+2586">>, <<"U+2585">>, <<"U+2584">>, <<"U+2583">>>>,
        interval_ms |-> 120],
       [name |-> <<"a", "r", "r", "o", "w", "3">>,
        frames |-> <<<<"U+2190">>, <<"U+2196">>, <<"U+2191">>, <<"U+2197">>, <<"U+2192">>, <<"U+2198">>, <<"U+2193">>, <<"U+2199">>>>,
        interval_ms |-> 80],
       [name |-> <<"c", "l", "o", "c", "k">>,
        frames |-> <<<<"U+1F55B">>, <<"U+1F550">>, <<"U+1F551">>, <<"U+1F552">>, <<"U+1F553">>, <<"U+1F554">>, <<"U+1F555">>, <<"U+1F556">>, <<"U+1F557">>, <<"U+1F558">>, <<"U+1F559">>, <<"U+1F55A">>>>,
        interval_ms |-> 100] >>

default_name == DIAMOND.name

list == [i \in 1..Len(ALL) |-> ALL[i].name]

\* u8::to_ascii_lowercase on one grapheme: only 'A'..'Z' change.
to_ascii_lowercase(g) ==
    IF \E i \in 1..26 : AsciiUpper[i] = g
    THEN AsciiLower[CHOOSE i \in 1..26 : AsciiUpper[i] = g] ELSE g

\* u8::to_ascii_uppercase, used to vary the case of the names looked up.
to_ascii_uppercase(g) ==
    IF \E i \in 1..26 : AsciiLower[i] = g
    THEN AsciiUpper[CHOOSE i \in 1..26 : AsciiLower[i] = g] ELSE g

\* str::eq_ignore_ascii_case
eq_ignore_ascii_case(a, b) ==
    /\ Len(a) = Len(b)
    /\ \A i \in 1..Len(a) : to_ascii_lowercase(a[i]) = to_ascii_lowercase(b[i])

\* A lookup that takes the first preset whose name the query starts with.
get_by_prefix(name) ==
    LET hits == { i \in 1..Len(ALL) :
                    /\ Len(ALL[i].name) <= Len(name)
                    /\ eq_ignore_ascii_case(ALL[i].name, SubSeq(name, 1, Len(ALL[i].name))) }
    IN  IF hits = {} THEN DIAMOND
        ELSE ALL[CHOOSE i \in hits : \A j \in hits : i <= j]

\* The loop returns at the first preset whose name matches.
get(name) ==
    LET hits == { i \in 1..Len(ALL) : eq_ignore_ascii_case(ALL[i].name, name) }
    IN  IF hits = {} THEN DIAMOND
        ELSE ALL[CHOOSE i \in hits : \A j \in hits : i <= j]

\* The names looked up: every registry name as written, in upper case, in
\* lower case, with
\* the case of its first letter changed, with a digit appended and with its
\* last letter removed; and names of no preset.
RegistryNames == { list[i] : i \in 1..Len(list) }

SpinnerQueries ==
    RegistryNames
    \cup { [i \in 1..Len(n) |-> to_ascii_uppercase(n[i])] : n \in RegistryNames }
    \cup { [i \in 1..Len(n) |-> to_ascii_lowercase(n[i])] : n \in RegistryNames }
    \cup { [n EXCEPT ![1] = to_ascii_uppercase(n[1])] : n \in RegistryNames }
    \cup { n \o <<"2">> : n \in RegistryNames }
    \cup { SubSeq(n, 1, Len(n) - 1) : n \in RegistryNames }
    \cup { <<>>, <<" ", "d", "i", "a", "m", "o", "n", "d">>, <<"d", "e", "f", "a",
        "u", "l", "t">>, <<"c", "l", "o", "c", "U+212A">>,
           <<"d", "U+0131", "a", "m", "o", "n", "d">> }

InitSpinners ==
    /\ cell = NoCell
    /\ now = Duration(0, 0)
    /\ input \in { [ctor |-> "spinners::get", args |-> <<n>>] : n \in SpinnerQueries }
                 \cup { [ctor |-> "spinners::list"], [ctor |-> "spinners::default_name"] }
    /\ last = [op |-> "none"]

\* spinners::get(name)
SpinnersGet ==
    /\ input.ctor = "spinners::get"
    /\ last.op = "none"
    /\ last' = [op |-> "spinners::get", spinner |-> get(input.args[1])]
    /\ UNCHANGED <<cell, now, input>>

\* spinners::list()
SpinnersList ==
    /\ input.ctor = "spinners::list"
    /\ last.op = "none"
    /\ last' = [op |-> "spinners::list", names |-> list]
    /\ UNCHANGED <<cell, now, input>>

\* spinners::default_name()
SpinnersDefaultName ==
    /\ input.ctor = "spinners::default_name"
    /\ last.op = "none"
    /\ last' = [op |-> "spinners::default_name", name |-> default_name]
    /\ UNCHANGED <<cell, now, input>>

NextSpinners ==
    \/ SpinnersGet
    \/ SpinnersList
    \/ SpinnersDefaultName

SpinnerSpec == InitSpinners /\ [][NextSpinners]_vars

(***************************************************************************)
(* HTML tables to Markdown (htmd, element_handler/table.rs).  A node is    *)
(* [tag, content, children]: content is what get_node_content gives for    *)
(* it, children what get_node_children gives; a node that is not an        *)
(* element has the tag "#text".                                            *)
(***************************************************************************)
Node(tag, content, children) == [tag |-> tag, content |-> content, children |-> children]

\* The cells of a row node that carry the tag, each trimmed.
extract_row_cells(row_node, cell_tag) ==
    LET cells == SelectSeq(row_node.children, LAMBDA n : n.tag = cell_tag)
    IN  [i \in 1..Len(cells) |-> StrTrim(cells[i].content)]

\* content.replace('\n', " ").replace('\r', "").replace('|', "&#124;").trim()
normalize_cell_content(content) ==
    StrTrim(Concat([i \in 1..Len(content) |->
                CASE content[i] = LF -> <<" ">>
                  [] content[i] = CR -> <<>>
                  [] content[i] = "|" -> <<"&", "#", "1", "2", "4", ";">>
                  [] OTHER -> <<content[i]>>]))

\* usize::saturating_sub
SaturatingSub(a, b) == IF a > b THEN a - b ELSE 0

\* A row formatter that writes the cells the row has, however many.
format_row_unpadded(row, num_columns, col_widths) ==
    <<"|">>
    \o Concat([i \in 1..Len(row) |->
                 <<" ">> \o normalize_cell_content(row[i]) \o <<" ", "|">>])
    \o <<LF>>

format_row_padded(row, num_columns, col_widths) ==
    LET taken == IF Len(col_widths) < num_columns THEN Len(col_widths) ELSE num_columns
        cell_at(i) == IF i <= Len(row) THEN normalize_cell_content(row[i]) ELSE <<>>
    IN  <<"|">>
        \o Concat([i \in 1..taken |->
                     <<" ">> \o cell_at(i)
                     \o Repeat(" ", SaturatingSub(col_widths[i], Len(cell_at(i))))
                     \o <<" ", "|">>])
        \o <<LF>>

format_separator_padded(num_columns, col_widths) ==
    LET taken == IF Len(col_widths) < num_columns THEN Len(col_widths) ELSE num_columns
    IN  <<"|">>
        \o Concat([i \in 1..taken |-> <<" ">> \o Repeat("-", col_widths[i]) \o <<" ",
            "|">>])
        \o <<LF>>

\* The widest of a column's header and its cells in the rows, before the
\* cells are normalized.  (headers[i] is written for every header: the caller
\* passes num_columns = headers.len() whenever there are headers.)
compute_column_widths(headers, rows, num_columns) ==
    [i \in 1..num_columns |->
        LET lens == {IF i <= Len(headers) THEN Len(headers[i]) ELSE 0}
                    \cup { Len(rows[r][i]) : r \in {q \in 1..Len(rows) : i <= Len(rows[q])} }
        IN  CHOOSE w \in lens : \A v \in lens : v <= w]

\* rows.iter().map(|row| row.len()).max().unwrap_or(0)
MaxRowLen(rows) ==
    IF rows = <<>> THEN 0
    ELSE CHOOSE w \in {Len(rows[r]) : r \in 1..Len(rows)} :
            \A r \in 1..Len(rows) : Len(rows[r]) <= w

\* The rows of a tbody or tfoot: the td cells of each tr that has any.
BodyRows(section) ==
    LET trs == SelectSeq(section.children, LAMBDA n : n.tag = "tr")
        all == [i \in 1..Len(trs) |-> extract_row_cells(trs[i], "td")]
    IN  SelectSeq(all, LAMBDA r : r # <<>>)

\* What the loop over the table's children has collected.
NoTableParts == [captions |-> <<>>, headers |-> <<>>, rows |-> <<>>, has_thead |-> FALSE]

\* One iteration of the loop over the table's children.
TableChild(st, child) ==
    CASE child.tag = "caption" ->
            [st EXCEPT !.captions = Append(@, StrTrim(child.content))]
      [] child.tag = "thead" ->
            LET trs == SelectSeq(child.children, LAMBDA n : n.tag = "tr")
                row_node == IF trs # <<>> THEN trs[1] ELSE child
                th == extract_row_cells(row_node, "th")
            IN  [st EXCEPT !.has_thead = TRUE,
                           !.headers = IF th = <<>> THEN extract_row_cells(row_node, "td")
                                       ELSE th]
      [] child.tag \in {"tbody", "tfoot"} ->
            [st EXCEPT !.rows = @ \o BodyRows(child)]
      [] child.tag = "tr" ->
            IF ~st.has_thead /\ st.headers = <<>>
            THEN LET th == extract_row_cells(child, "th")
                     headers == IF th = <<>> THEN extract_row_cells(child, "td") ELSE th
                 IN  [st EXCEPT !.headers = headers, !.has_thead = (headers # <<>>)]
            ELSE LET row_cells == extract_row_cells(child, "td")
                 IN  IF row_cells # <<>> THEN [st EXCEPT !.rows = Append(@, row_cells)]
                     ELSE st
      [] OTHER -> st

RECURSIVE TableParts(_, _)
TableParts(st, children) ==
    IF children = <<>> THEN st
    ELSE TableParts(TableChild(st, Head(children)), Tail(children))

\* Option<String>: <<>> is None, <<s>> is Some(s).
table_handler(element) ==
    LET content == StrTrim(element.content)
        st == TableParts(NoTableParts, element.children)
        raw == <<LF, LF>> \o content \o <<LF, LF>>
        num_columns == IF st.headers = <<>> THEN MaxRowLen(st.rows) ELSE Len(st.headers)
        col_widths == compute_column_widths(st.headers, st.rows, num_columns)
    IN  IF content = <<>> THEN <<>>
        ELSE IF st.rows = <<>> /\ st.headers = <<>> THEN <<raw>>
        ELSE IF num_columns = 0 THEN <<raw>>
        ELSE << <<LF, LF>>
                \o Concat([i \in 1..Len(st.captions) |-> st.captions[i] \o <<LF>>])
                \o (IF st.headers # <<>>
                    THEN format_row_padded(st.headers, num_columns, col_widths)
                         \o format_separator_padded(num_columns, col_widths)
                    ELSE <<>>)
                \o Concat([r \in 1..Len(st.rows) |->
                             format_row_padded(st.rows[r], num_columns, col_widths)])
                \o <<LF>> >>

\* The tables converted.  Cell k of a row reads CellText(k): a plain letter, a
\* text with a pipe, a text with line breaks and outer blanks, then letters.
CellText(k) ==
    CASE k = 1 -> <<"a">>
      [] k = 2 -> <<"b", "|", "c">>
      [] k = 3 -> <<" ", "d", LF, "e", CR, " ">>
      [] OTHER -> <<"x", "y">>

Cells(tag, n) == [k \in 1..n |-> Node(tag, CellText(k), <<>>)]

Tr(cells) == Node("tr", <<>>, cells)

\* Rows of 0..MaxRowCells td cells, and a row of a th between two td.
DataRowNodes ==
    { Tr(Cells("td", n)) : n \in 0..MaxRowCells }
    \cup { Tr(<<Node("td", <<"p">>, <<>>), Node("th", <<"h">>, <<>>),
               Node("#text", <<" ">>, <<>>), Node("td", <<"q">>, <<>>)>>) }

TableBodies ==
    {<<>>} \cup {<<r>> : r \in DataRowNodes} \cup {<<r, s>> : r, s \in DataRowNodes}

\* What precedes the rows: nothing, a thead whose tr holds two th, a thead
\* whose tr holds two td, a thead that holds one th and no tr, a thead with no
\* cell, a first tr of two th.
TableHeads ==
    { <<>>,
      <<Node("thead", <<>>, <<Tr(Cells("th", 2))>>)>>,
      <<Node("thead", <<>>, <<Tr(Cells("td", 2))>>)>>,
      <<Node("thead", <<>>, Cells("th", 1))>>,
      <<Node("thead", <<>>, <<>>)>>,
      <<Tr(Cells("th", 2))>> }

TableCaptions == { <<>>, <<Node("caption", <<" ", "T", "o", "t", "a", "l", "s",
    " ">>, <<>>)>> }

TableElements ==
    { [content |-> text, children |-> caption \o head \o rows] :
        text \in {<<"r", "a", "w", " ", "t", "e", "x", "t">>, <<" ", LF>>},
        caption \in TableCaptions, head \in TableHeads,
        rows \in TableBodies \cup {<<Node("tbody", <<>>, b)>> : b \in TableBodies}
                 \cup {<<Node("colgroup", <<>>, <<>>), Node("tfoot", <<>>, b)>> :
                         b \in {<<r>> : r \in DataRowNodes}} }

InitTables ==
    /\ cell = NoCell
    /\ now = Duration(0, 0)
    /\ input \in { [ctor |-> "table_handler", args |-> <<e>>] : e \in TableElements }
    /\ last = [op |-> "none"]

\* table_handler(element)
TableHandler ==
    /\ input.ctor = "table_handler"
    /\ last.op = "none"
    /\ last' = [op |-> "table_handler", result |-> table_handler(input.args[1])]
    /\ UNCHANGED <<cell, now, input>>

TableSpec == InitTables /\ [][TableHandler]_vars

(***************************************************************************)
(* The properties checked of the model.                                    *)
(***************************************************************************)
\* The rows the paragraph of render_ref wraps to at a width: what render_ref
\* paints of the cell into an area of that width tall enough for all of them,
\* nothing when the width is 0.
WrappedRows(c, width) ==
    IF width < 1 THEN 0
    ELSE Len(WordWrap(RenderParagraph(c).text, width, RenderParagraph(c).wrap.trim))

\* desired_height was the last call, made of a cell that is not animated.
HeightOfTextCell == last.op = "desired_height" /\ cell.tag # "AnimatedWelcome"

\* The cell is a patch event with a long diff summary.
LongPatchEvent == input.ctor = "new_patch_event" /\ Len(cell.view) > LongLineLen

\* C1 as stated: for every variant other than AnimatedWelcome and every width,
\* desired_height equals the number of rows that word-wrapping plain_lines at
\* that width gives, the wrap render_ref uses.
C1_HeightIsWrappedRows ==
    HeightOfTextCell => last.height = WrappedRows(cell, last.width)

\* C1, amended: for every variant other than AnimatedWelcome and every width,
\* desired_height equals the number of rows that word-wrapping plain_lines at
\* that width gives, the wrap render_ref uses, when that number is at most
\* 65535, and is 0 when it is larger.
C1_HeightIsWrappedRowsUpToU16 ==
    HeightOfTextCell =>
        LET rows == WrappedRows(cell, last.width)
        IN  last.height = (IF rows <= 65535 THEN rows ELSE 0)

\* The height was taken at width 1 of a patch event whose lines wrap to 65535
\* rows there, many more than it has lines: the height is 65535.
C1_Witness ==
    /\ HeightOfTextCell
    /\ LongPatchEvent
    /\ last.width = 1
    /\ last.height = 65535
    /\ last.height > Len(plain_lines(cell))
    /\ WrappedRows(cell, 1) = 65535

\* output_lines was applied to an output of which it shows a stream.
StreamShown ==
    /\ last.op = "output_lines"
    /\ input.args[1] # NoOutput
    /\ ~(input.args[2] /\ input.args[1].exit_code = 0)

\* The lines of the stream output_lines selects from its input.
SourceLines ==
    StrLines(IF input.args[1].exit_code = 0
             THEN input.args[1].stdout ELSE input.args[1].stderr)

MarkerText(n) == <<".", ".", ".", " ">> \o Decimal(n) \o <<" ", "l", "i", "n", "e",
    "s", " ", "t", "r", "u", "n", "c", "a", "t", "e", "d", " ", ".", ".", ".">>

IsMarkerLine(line) ==
    \E n \in 0..(MaxSrcLines + 1) : LineText(line) = <<" ", " ", " ",
        " ">> \o MarkerText(n)

\* C2: for a selected stream of L > 10 lines output_lines emits exactly 11
\* lines, five before and five after one marker line, and the marker reads
\* "... N lines truncated ..." with N = L - 10.
C2_TruncatedToElevenLines ==
    (StreamShown /\ Len(SourceLines) > 10) =>
        /\ Len(last.lines) = 11
        /\ LineText(last.lines[6]) = <<" ", " ", " ",
            " ">> \o MarkerText(Len(SourceLines) - 10)
        /\ \A i \in (1..11) \ {6} : ~IsMarkerLine(last.lines[i])

\* A stream of 12 lines was truncated to 11.
C2_Witness ==
    /\ StreamShown
    /\ Len(SourceLines) = 12
    /\ Len(last.lines) = 11
    /\ IsMarkerLine(last.lines[6])

\* C3: for a selected stream of L <= 10 lines, L = 10 included, output_lines
\* emits exactly L lines, one per source line in the original order, and no
\* marker line.
C3_ShortStreamShownWhole ==
    (StreamShown /\ Len(SourceLines) <= 10) =>
        /\ Len(last.lines) = Len(SourceLines)
        /\ \A i \in 1..Len(SourceLines) :
             /\ LineText(last.lines[i]) =
                    (IF i = 1 /\ input.args[3] THEN AnglePipePrefix ELSE IndentPrefix)
                    \o LineText(ansi_escape_line(SourceLines[i]))
             /\ ~IsMarkerLine(last.lines[i])

\* A stream of exactly 10 lines was shown in 10 lines.
C3_Witness ==
    /\ StreamShown
    /\ Len(SourceLines) = 10
    /\ Len(last.lines) = 10

\* C4: the completion latch is monotonic: once set it stays set through every
\* later step, whatever the time, and every render of a completed cell paints
\* the final frame, at progress 1.0.
C4_LatchMonotonic ==
    [][(cell.tag = "AnimatedWelcome" /\ cell.completed) =>
           /\ cell'.tag = "AnimatedWelcome"
           /\ cell'.completed
           /\ (last'.op = "render_ref" => last'.progress = F32One)]_vars

\* A render found the latch already set, and painted the final frame.
C4_Witness ==
    /\ cell.tag = "AnimatedWelcome"
    /\ cell.completed
    /\ last.op = "render_ref"
    /\ last.was_completed
    /\ last.progress = F32One

\* C5 as stated: a render at elapsed < 2 s with the latch unset paints at
\* progress = elapsed / 2 s, which is below 1, and leaves the latch unset; every
\* other render sets the latch and paints at progress exactly 1.0.
C5_TransitionRule ==
    (cell.tag = "AnimatedWelcome" /\ last.op = "render_ref") =>
        IF DurationLess(last.elapsed, from_secs(2)) /\ ~last.was_completed
        THEN /\ last.progress =
                    F32Div(as_secs_f32(last.elapsed), as_secs_f32(from_secs(2)))
             /\ F32Less(last.progress, F32One)
             /\ ~cell.completed
        ELSE /\ last.progress = F32One
             /\ cell.completed

\* The plain lines of a generic Exec cell with a completed output were taken.
GenericOutputShown ==
    /\ cell.tag = "Exec"
    /\ cell.parsed = <<>>
    /\ cell.output # NoOutput
    /\ last.op = "plain_lines"

\* The lines that show output: those that start with one of the two prefixes.
OutputRows ==
    { i \in 1..Len(last.lines) :
        /\ last.lines[i].spans # <<>>
        /\ last.lines[i].spans[1].content \in {AnglePipePrefix, IndentPrefix} }

\* What an output line shows after its prefix.
RowText(i) == SubSeq(LineText(last.lines[i]), 5, Len(LineText(last.lines[i])))

\* The texts the non-blank lines of a stream are shown as.
ShownTexts(stream) ==
    { LineText(ansi_escape_line(StrLines(stream)[i])) : i \in 1..Len(StrLines(stream)) }
    \ {<<>>}

\* C6: on the generic command path with a completed output, the output lines
\* shown come only from stdout when the exit code is 0 and only from stderr
\* when it is not; no line of the other stream appears.
C6_OnlyTheSelectedStream ==
    GenericOutputShown =>
        LET selected == IF cell.output.exit_code = 0
                        THEN cell.output.stdout ELSE cell.output.stderr
            other == IF cell.output.exit_code = 0
                     THEN cell.output.stderr ELSE cell.output.stdout
        IN  /\ \A i \in OutputRows :
                 /\ RowText(i) \in ShownTexts(selected)
                                   \cup {<<>>}
                                   \cup {MarkerText(n) : n \in 0..(MaxSrcLines + 1)}
                 /\ RowText(i) \notin ShownTexts(other)
            /\ \A t \in ShownTexts(other) :
                 \A i \in 1..Len(last.lines) : LineText(last.lines[i]) # t
            /\ (StrLines(selected) # <<>>) =>
                 \E i \in OutputRows :
                     LineText(last.lines[i]) =
                         AnglePipePrefix \o LineText(ansi_escape_line(StrLines(selected)[1]))

\* A failed command with both streams non-empty shows lines of its output.
C6_Witness ==
    /\ GenericOutputShown
    /\ cell.output.exit_code # 0
    /\ cell.output.stdout # <<>>
    /\ cell.output.stderr # <<>>
    /\ OutputRows # {}

\* C7: plain_lines of an AnimatedWelcome cell returns the same three lines,
\* blank, "Welcome to Coder", blank, whatever the elapsed time and the latch,
\* and whatever renders came before.
C7_WelcomePlainLinesFixed ==
    (cell.tag = "AnimatedWelcome" /\ last.op = "plain_lines") =>
        last.lines = <<LineFromStr(<<>>), LineFromStr(<<"W", "e", "l", "c", "o", "m",
            "e", " ", "t", "o", " ", "C", "o", "d", "e", "r">>),
                       LineFromStr(<<>>)>>

\* plain_lines was called of a cell that a render had latched.
C7_Witness ==
    /\ cell.tag = "AnimatedWelcome"
    /\ cell.completed
    /\ last.op = "plain_lines"
    /\ Len(last.lines) = 3

\* C8: desired_height of an AnimatedWelcome cell is 18 at every width, before
\* and after the latch is set.
C8_WelcomeHeightFixed ==
    (cell.tag = "AnimatedWelcome" /\ last.op = "desired_height") => last.height = 18

\* The height of a latched cell is 18 at width 1, where its three plain lines
\* wrap to another number of rows.
C8_Witness ==
    /\ cell.tag = "AnimatedWelcome"
    /\ cell.completed
    /\ last.op = "desired_height"
    /\ last.width = 1
    /\ last.height = 18
    /\ WrappedRows(cell, 1) # 18

\* C9 as stated: the plain lines of every cell that is not animated end with
\* exactly one blank line: the last line is blank and the one before it, if
\* there is one, is not.
C9_OneTrailingBlankLine ==
    (cell.tag \notin {"None", "AnimatedWelcome"} /\ last.op = "plain_lines") =>
        /\ Len(last.lines) >= 1
        /\ IsBlank(last.lines[Len(last.lines)])
        /\ Len(last.lines) >= 2 => ~IsBlank(last.lines[Len(last.lines) - 1])

\* C11: after construction no operation changes a field of the cell, except
\* that a render may set the AnimatedWelcome latch, from false to true:
\* plain_lines and desired_height leave the cell as it is, and a render leaves
\* start_time, command, parsed, output, view and the image as they are.
C11_FieldsFrozen ==
    [][cell # NoCell =>
          \/ cell' = cell
          \/ /\ cell.tag = "AnimatedWelcome"
             /\ ~cell.completed
             /\ last'.op = "render_ref"
             /\ cell' = [cell EXCEPT !.completed = TRUE]]_vars

\* A render has just set the latch of a cell created earlier, and left its
\* start_time alone.
C11_Witness ==
    /\ cell.tag = "AnimatedWelcome"
    /\ cell.completed
    /\ last.op = "render_ref"
    /\ ~last.was_completed
    /\ cell.start_time = input.args[1]
    /\ DurationLess(cell.start_time, now)

\* The plan a plan-update cell was built from, and its counts.
PlanOfCell == input.args[1].plan

TotalSteps == Len(PlanOfCell)

CompletedSteps ==
    Cardinality({i \in 1..Len(PlanOfCell) : PlanOfCell[i].status = "Completed"})

CountGlyph(text, g) == Cardinality({i \in 1..Len(text) : text[i] = g})

\* The filled and the empty glyphs of the bar in the header the cell shows.
FilledShown == CountGlyph(LineText(last.lines[1]), "U+2588")

EmptyShown == CountGlyph(LineText(last.lines[1]), "U+2591")

PlanBarShown == cell.tag = "PlanUpdate" /\ last.op = "plain_lines"

\* C12: the bar of a plan update has
\* filled = floor((completed * 10 + floor(total / 2)) / total) glyphs when
\* total > 0 and none when total = 0, and empty = 10 - filled; filled is within
\* 0..10, the bar has exactly 10 glyphs, and filled is the integer nearest to
\* 10 * completed / total.
C12_PlanBarRounded ==
    PlanBarShown =>
        /\ FilledShown = (IF TotalSteps > 0
                          THEN (CompletedSteps * 10 + TotalSteps \div 2) \div TotalSteps
                          ELSE 0)
        /\ EmptyShown = 10 - FilledShown
        /\ FilledShown \in 0..10
        /\ FilledShown + EmptyShown = 10
        /\ TotalSteps > 0 =>
              /\ 2 * (FilledShown * TotalSteps - 10 * CompletedSteps) <= TotalSteps
              /\ 2 * (10 * CompletedSteps - FilledShown * TotalSteps) <= TotalSteps

\* The bar of a plan of 10 steps with 3 completed is shown, 3 glyphs filled.
C12_Witness ==
    /\ PlanBarShown
    /\ TotalSteps = 10
    /\ CompletedSteps = 3
    /\ FilledShown = 3
    /\ EmptyShown = 7

\* The result a completed tool-call cell was built from.
ToolCallCompleted == input.ctor = "new_completed_mcp_tool_call"

ResultOfCell == input.args[5]

FirstBlockIsImage ==
    /\ ResultOfCell.ok
    /\ ResultOfCell.content # <<>>
    /\ ResultOfCell.content[1].kind = "Image"

ImageDecodes ==
    /\ FirstBlockIsImage
    /\ Base64DecodeOk(ResultOfCell.content[1].data)
    /\ GuessFormatOk(ResultOfCell.content[1].data)
    /\ RasterDecodeOk(ResultOfCell.content[1].data)

\* In a text cell built from a successful result, block i is shown on line
\* 3 + i: title, invocation and a blank line come first.
ImageBlocksShownAsText ==
    ResultOfCell.ok =>
        /\ Len(cell.view) = (IF ResultOfCell.content = <<>> THEN 3
                             ELSE Len(ResultOfCell.content) + 4)
        /\ \A i \in 1..Len(ResultOfCell.content) :
              ResultOfCell.content[i].kind = "Image" =>
                  LineText(cell.view[3 + i]) = <<"<", "i", "m", "a", "g", "e", " ",
                      "c", "o", "n", "t", "e", "n", "t", ">">>

\* C13: new_completed_mcp_tool_call always returns a cell: the image cell when
\* the first block of a successful result is an image and base64 decoding,
\* format sniffing and raster decoding all succeed; in every other case a
\* CompletedMcpToolCall cell of text lines, in which an image block reads
\* '<image content>'.
C13_ImageFallsBackToText ==
    ToolCallCompleted =>
        IF ImageDecodes
        THEN /\ cell.tag = "CompletedMcpToolCallWithImageOutput"
             /\ cell.image = ResultOfCell.content[1].data
        ELSE /\ cell.tag = "CompletedMcpToolCall"
             /\ Len(cell.view) >= 3
             /\ ImageBlocksShownAsText

\* The first block was an image whose bytes the raster decoder rejected, and
\* the cell is a text cell showing it as '<image content>'.
C13_Witness ==
    /\ ToolCallCompleted
    /\ FirstBlockIsImage
    /\ Base64DecodeOk(ResultOfCell.content[1].data)
    /\ GuessFormatOk(ResultOfCell.content[1].data)
    /\ ~RasterDecodeOk(ResultOfCell.content[1].data)
    /\ cell.tag = "CompletedMcpToolCall"
    /\ LineText(cell.view[4]) = <<"<", "i", "m", "a", "g", "e", " ", "c", "o", "n",
        "t", "e", "n", "t", ">">>

\* A render of an AnimatedWelcome cell happens in this step, at an elapsed time
\* under 2 s.
RenderBeforeTwoSeconds ==
    /\ cell.tag = "AnimatedWelcome"
    /\ last'.op = "render_ref"
    /\ last' # last
    /\ DurationLess(last'.elapsed, from_secs(2))

\* C14 as stated: every render before 2 s have elapsed leaves the latch unset
\* and paints at a progress below 1, and its progress is strictly above that of
\* the render before it, made at an earlier time.
C14_ProgressStrictlyIncreasing ==
    [][RenderBeforeTwoSeconds =>
          /\ ~cell'.completed
          /\ F32Less(last'.progress, F32One)
          /\ (last.op = "render_ref" /\ DurationLess(last.elapsed, last'.elapsed)) =>
                 F32Less(last.progress, last'.progress)]_vars

\* output_lines was applied to an input from which no line is to be shown: no
\* output yet, errors-only with exit code 0, or an empty selected stream.
NothingToShow ==
    /\ last.op = "output_lines"
    /\ IF input.args[1] = NoOutput THEN TRUE
       ELSE IF input.args[2] /\ input.args[1].exit_code = 0 THEN TRUE
       ELSE (IF input.args[1].exit_code = 0
             THEN input.args[1].stdout ELSE input.args[1].stderr) = <<>>

\* plain_lines was taken of an Exec cell on the structured path whose command
\* exited 0.
StructuredExitZeroShown ==
    /\ cell.tag = "Exec"
    /\ cell.parsed # <<>>
    /\ cell.output # NoOutput
    /\ cell.output.exit_code = 0
    /\ last.op = "plain_lines"

\* C15: output_lines produces no lines when there is no output yet, when the
\* selected stream is empty, or when errors-only is requested and the exit
\* code is 0; so the structured command path shows, for a command that exited
\* 0, the header, one line per parsed command and the blank line, whatever
\* stdout and stderr hold.
C15_NoLinesWithoutSelectedOutput ==
    /\ NothingToShow => last.lines = <<>>
    /\ StructuredExitZeroShown =>
          /\ Len(last.lines) = Len(cell.parsed) + 2
          /\ last.lines = plain_lines(new_active_exec_command(cell.command, cell.parsed))

\* The structured path showed a command that exited 0 with both streams
\* non-empty.
C15_Witness ==
    /\ StructuredExitZeroShown
    /\ cell.output.stdout # <<>>
    /\ cell.output.stderr # <<>>
    /\ Len(last.lines) = Len(cell.parsed) + 2

\* plain_lines was taken of a patch-apply-failure cell; the lines of the stderr
\* it was built from, and how many of them it shows.
FailureShown == input.ctor = "new_patch_apply_failure" /\ last.op = "plain_lines"

StderrLines == StrLines(input.args[1])

StderrShown == IF Len(StderrLines) < 5 THEN Len(StderrLines) ELSE 5

FailureTitle == <<"U+2718", " ", "F", "a", "i", "l", "e", "d", " ", "t", "o", " ",
    "a", "p", "p", "l", "y", " ", "p", "a", "t", "c", "h">>

\* C16: a patch-apply-failure cell shows the title, then the first min(L, 5)
\* lines of stderr in order, the first behind the marker prefix and the others
\* behind the indent, then, exactly when L > 5, a blank line and
\* '... +R lines' with R = L - 5, and the closing blank line; when stderr is
\* blank after trimming it shows the title and the closing blank line only.
C16_FailureShowsFiveLines ==
    FailureShown =>
        /\ LineText(last.lines[1]) = FailureTitle
        /\ IF StrTrim(input.args[1]) = <<>>
           THEN Len(last.lines) = 2 /\ IsBlank(last.lines[2])
           ELSE /\ Len(last.lines) =
                       1 + StderrShown + (IF Len(StderrLines) > 5 THEN 2 ELSE 0) + 1
                /\ \A i \in 1..StderrShown :
                      LineText(last.lines[1 + i]) =
                          (IF i = 1 THEN AnglePipePrefix ELSE IndentPrefix)
                          \o LineText(ansi_escape_line(StderrLines[i]))
                /\ Len(StderrLines) > 5 =>
                      /\ IsBlank(last.lines[StderrShown + 2])
                      /\ LineText(last.lines[StderrShown + 3]) =
                             <<".", ".", ".", " ",
                                 "+">> \o Decimal(Len(StderrLines) - 5) \o <<" ", "l",
                                 "i", "n", "e", "s">>
                /\ IsBlank(last.lines[Len(last.lines)])

\* A failure with 6 lines of stderr is shown: five lines, a blank line and
\* '... +1 lines'.
C16_Witness ==
    /\ FailureShown
    /\ Len(StderrLines) = 6
    /\ Len(last.lines) = 9
    /\ LineText(last.lines[8]) = <<".", ".", ".", " ", "+", "1", " ", "l", "i", "n",
        "e", "s">>

\* The prefix output_lines puts before emitted line i, and the source text
\* that follows it.
PrefixOfEmitted(i) ==
    IF i = 1 /\ input.args[3] THEN AnglePipePrefix ELSE IndentPrefix

EmittedLine(i, k) ==
    LineText(last.lines[i]) = PrefixOfEmitted(i) \o LineText(ansi_escape_line(SourceLines[k]))

\* The emitted lines, the marker aside, whose text after the four graphemes of
\* the prefix is source line k.
EmittedCopies(k) ==
    { i \in (1..Len(last.lines)) \ {6} :
        SubSeq(LineText(last.lines[i]), 5, Len(LineText(last.lines[i])))
            = LineText(ansi_escape_line(SourceLines[k])) }

\* C17: when output_lines truncates (L > 10), emitted lines 1..5 are source
\* lines 1..5, emitted line 6 is the marker, emitted lines 7..11 are source
\* lines L-4..L; the marker prefix is on emitted line 1 only, and only when
\* requested; each of source lines 1..5 and L-4..L is emitted once and source
\* lines 6..L-5 are not emitted.
C17_HeadMarkerTail ==
    (StreamShown /\ Len(SourceLines) > 10) =>
        /\ Len(last.lines) = 11
        /\ \A i \in 1..5 : EmittedLine(i, i)
        /\ IsMarkerLine(last.lines[6])
        /\ \A j \in 1..5 : EmittedLine(6 + j, Len(SourceLines) - 5 + j)
        /\ \A k \in 1..Len(SourceLines) :
              Cardinality(EmittedCopies(k)) =
                  (IF k <= 5 \/ k >= Len(SourceLines) - 4 THEN 1 ELSE 0)

\* A stream of 12 lines was truncated with the marker prefix requested: the
\* first emitted line carries it, the seventh is source line 8 behind the
\* indent.
C17_Witness ==
    /\ StreamShown
    /\ input.args[3]
    /\ Len(SourceLines) = 12
    /\ SubSeq(LineText(last.lines[1]), 1, 4) = AnglePipePrefix
    /\ LineText(last.lines[7]) = IndentPrefix \o SourceLines[8]
    /\ EmittedCopies(6) = {}
    /\ EmittedCopies(7) = {}

\* The latch of an AnimatedWelcome cell changes in this step.
LatchChanges ==
    /\ cell.tag = "AnimatedWelcome"
    /\ cell'.tag = "AnimatedWelcome"
    /\ cell'.completed # cell.completed

\* The cell is an AnimatedWelcome created at least 2 s before the last instant
\* of the model's clock, 2.5 s.
AnimationEndsInTime ==
    /\ cell.tag = "AnimatedWelcome"
    /\ ~DurationLess(DurationSince(Duration(2, 500000000), cell.start_time), from_secs(2))

\* C18: the latch goes from unset to set and changes no other way; it changes
\* only in a render, one that observes elapsed >= 2 s, never by the passing of
\* time; every render that observes elapsed >= 2 s leaves it set; and when time
\* keeps advancing and renders keep being called, the latch of every
\* AnimatedWelcome cell whose two seconds end on the model's clock is
\* eventually set.
C18_LatchSetOnceByRender ==
    /\ [][LatchChanges =>
             /\ ~cell.completed
             /\ now' = now
             /\ last'.op = "render_ref"
             /\ ~last'.was_completed
             /\ ~DurationLess(last'.elapsed, from_secs(2))]_vars
    /\ []((cell.tag = "AnimatedWelcome" /\ last.op = "render_ref"
           /\ ~DurationLess(last.elapsed, from_secs(2))) => cell.completed)
    /\ AnimationEndsInTime ~> (cell.tag = "AnimatedWelcome" /\ cell.completed)

\* No render came between 2 s and 2.5 s after the cell was created: the latch
\* was still unset when the render at 2.5 s found it, and that render set it.
C18_Witness ==
    /\ cell.tag = "AnimatedWelcome"
    /\ cell.completed
    /\ last.op = "render_ref"
    /\ ~last.was_completed
    /\ last.elapsed = Duration(2, 500000000)

\* The event type a patch-event cell was built from, and the lines
\* create_diff_summary has for its change map.
PatchEventBuilt == input.ctor = "new_patch_event"

ManuallyApproved ==
    input.args[1].kind = "ApplyBegin" /\ ~input.args[1].auto_approved

\* C20: new_patch_event returns, for ApplyBegin with auto_approved = false, a
\* PendingPatch cell of the 'Applying patch' banner and a blank line, whatever
\* the diff summary of the change map is; for ApprovalRequest and for
\* ApplyBegin with auto_approved = true, a PendingPatch cell of the diff
\* summary's lines, unchanged and in order, followed by one blank line.
C20_PatchEventDispatch ==
    PatchEventBuilt =>
        /\ cell.tag = "PendingPatch"
        /\ IF ManuallyApproved
           THEN /\ Len(cell.view) = 2
                /\ cell.view[1] =
                       LineFromSpan(Span(<<"U+270FU+FE0F", " ", "A", "p", "p", "l",
                           "y", "i", "n", "g", " ", "p", "a", "t", "c",
                           "h">>, {"fg:magenta", "BOLD"}))
                /\ cell.view[2] = BlankLine
           ELSE /\ Len(cell.view) = Len(input.args[2]) + 1
                /\ SubSeq(cell.view, 1, Len(input.args[2])) = input.args[2]
                /\ cell.view[Len(cell.view)] = BlankLine

\* A manually approved apply-begin whose change map has a diff summary of two
\* lines is shown as the banner and a blank line.
C20_Witness ==
    /\ PatchEventBuilt
    /\ ManuallyApproved
    /\ Len(input.args[2]) = 2
    /\ last.op = "plain_lines"
    /\ Len(last.lines) = 2

\* The text cell of a successful tool result: the image path did not take it.
SuccessfulTextResult ==
    /\ ToolCallCompleted
    /\ ResultOfCell.ok
    /\ cell.tag = "CompletedMcpToolCall"

BlockCount == Len(ResultOfCell.content)

\* What the claim says block b reads as; a text block's line is its formatted
\* and truncated text.
BlockReadsAsClaimed(b, line) ==
    CASE b.kind = "Image" -> LineText(line) = <<"<", "i", "m", "a", "g", "e", " ",
        "c", "o", "n", "t", "e", "n", "t", ">">>
      [] b.kind = "Audio" -> LineText(line) = <<"<", "a", "u", "d", "i", "o", " ",
          "c", "o", "n", "t", "e", "n", "t", ">">>
      [] b.kind = "EmbeddedResource" -> LineText(line) = <<"e", "m", "b", "e", "d",
          "d", "e", "d", " ", "r", "e", "s", "o", "u", "r", "c", "e", ":",
          " ">> \o b.uri
      [] b.kind = "ResourceLink" -> LineText(line) = <<"l", "i", "n", "k", ":",
          " ">> \o b.uri
      [] b.kind = "Text" ->
            line = LineStyled(format_and_truncate_tool_result(
                                  b.text, TOOL_CALL_MAX_LINES, input.args[1]),
                              {"fg:gray"})

\* C21: for a successful tool result that the image path did not take, with n
\* content blocks, the cell has the title line and the invocation line, then,
\* when n > 0, a blank line and one gray line per content block in block order
\* (Image '<image content>', Audio '<audio content>', EmbeddedResource
\* 'embedded resource: {uri}', ResourceLink 'link: {uri}'), then a trailing
\* blank line.
C21_OneLinePerContentBlock ==
    SuccessfulTextResult =>
        /\ Len(cell.view) = 2 + (IF BlockCount > 0 THEN 1 + BlockCount ELSE 0) + 1
        /\ ~IsBlank(cell.view[1])
        /\ cell.view[2] = format_mcp_invocation(input.args[2])
        /\ BlockCount > 0 => cell.view[3] = BlankLine
        /\ \A i \in 1..BlockCount :
              /\ cell.view[3 + i].style = {"fg:gray"}
              /\ BlockReadsAsClaimed(ResultOfCell.content[i], cell.view[3 + i])
        /\ cell.view[Len(cell.view)] = BlankLine

\* A result of three blocks (embedded resource, link, audio) is shown on seven
\* lines, the three block lines in block order.
C21_Witness ==
    /\ SuccessfulTextResult
    /\ BlockCount = 3
    /\ ResultOfCell.content[2].kind = "ResourceLink"
    /\ Len(cell.view) = 7
    /\ LineText(cell.view[4]) = <<"e", "m", "b", "e", "d", "d", "e", "d", " ", "r",
        "e", "s", "o", "u", "r", "c", "e", ":", " ", "u", ":", "1">>
    /\ LineText(cell.view[5]) = <<"l", "i", "n", "k", ":", " ", "u", ":", "2">>
    /\ LineText(cell.view[6]) = <<"<", "a", "u", "d", "i", "o", " ", "c", "o", "n",
        "t", "e", "n", "t", ">">>
    /\ last.op = "plain_lines"
    /\ Len(last.lines) = 7

\* The lines of an Exec cell have just been computed.
ExecLinesShown == cell # NoCell /\ cell.tag = "Exec" /\ last.op = "plain_lines"

ParsedCount == Len(cell.parsed)

\* The header lines of the two paths.
StructuredPathTaken == last.lines[1] = WorkingHeader

GenericPathTaken ==
    /\ last.lines[1].spans # <<>>
    /\ Len(last.lines[1].spans[1].content) >= Len(RanCommand)
    /\ SubSeq(last.lines[1].spans[1].content, 1, Len(RanCommand)) = RanCommand

\* The errors-only output lines of the cell: none while the command runs or
\* after exit code 0, the truncated stderr lines after a failure.
ErrorsOnlyLines == output_lines(cell.output, TRUE, FALSE)

\* C22: the lines of an Exec cell take the structured path exactly when the
\* parsed command list is non-empty and the generic path exactly when it is
\* empty; the structured path gives the constant 'Working' header, then one
\* line per ParsedCommand in list order, the first with the prefix '  L ' and
\* the others with four spaces, then the errors-only output lines, then one
\* blank line.
C22_ExecPathByParsedList ==
    ExecLinesShown =>
        /\ StructuredPathTaken <=> (cell.parsed # <<>>)
        /\ GenericPathTaken <=> (cell.parsed = <<>>)
        /\ (cell.parsed = <<>>) =>
              last.lines = new_exec_command_generic(cell.command, cell.output)
        /\ (cell.parsed # <<>>) =>
              /\ Len(last.lines) = 1 + ParsedCount + Len(ErrorsOnlyLines) + 1
              /\ \A i \in 1..ParsedCount :
                    /\ Len(last.lines[1 + i].spans) = 2
                    /\ last.lines[1 + i].spans[1].content =
                          (IF i = 1 THEN <<" ", " ", "L", " ">> ELSE <<" ", " ", " ",
                              " ">>)
                    /\ last.lines[1 + i].spans[2].content = ParsedCommandText(cell.parsed[i])
              /\ SubSeq(last.lines, 2 + ParsedCount, Len(last.lines) - 1) = ErrorsOnlyLines
              /\ last.lines[Len(last.lines)] = BlankLine

\* A failed command parsed into three commands: header, three command lines
\* of which only the first carries 'L', the stderr line, a blank line.
C22_Witness ==
    /\ ExecLinesShown
    /\ ParsedCount = 3
    /\ cell.output # NoOutput
    /\ cell.output.exit_code # 0
    /\ Len(ErrorsOnlyLines) = 1
    /\ Len(last.lines) = 6
    /\ last.lines[2].spans[1].content = <<" ", " ", "L", " ">>
    /\ last.lines[3].spans[1].content = <<" ", " ", " ", " ">>
    /\ last.lines[4].spans[1].content = <<" ", " ", " ", " ">>

\* The usize that Paragraph::line_count returns to the last desired_height
\* call: the rows of the paragraph desired_height builds of the cell.
CountedRows == LineCount(HeightParagraph(cell), last.width)

\* C23: desired_height of a cell that is not animated returns the wrapped row
\* count when that count is at most 65535 and returns 0 whenever the count
\* exceeds 65535, neither the saturated value 65535 nor the count's low 16
\* bits; the conversion has a value for every count, so the call always
\* returns.
C23_HeightZeroBeyondU16 ==
    HeightOfTextCell =>
        LET count == CountedRows
        IN  /\ last.height \in 0..U16Max
            /\ (count <= U16Max) => (last.height = count)
            /\ (count > U16Max) => (last.height = 0)

\* The height was taken at width 1 of a patch event whose lines wrap to 65537
\* rows there, a count whose low 16 bits are 1: the height is 0.
C23_Witness ==
    /\ HeightOfTextCell
    /\ LongPatchEvent
    /\ last.width = 1
    /\ last.height = 0
    /\ LET count == CountedRows
       IN  count = U16Max + 2 /\ count % (U16Max + 1) = 1

\* A name with its ASCII letters in lower case.
Folded(name) == [i \in 1..Len(name) |-> to_ascii_lowercase(name[i])]

\* The registry names that the looked-up name matches, ASCII case ignored.
MatchingNames(name) == { n \in RegistryNames : Folded(n) = Folded(name) }

SpinnerLookedUp == last.op = "spinners::get"

LookedUpName == input.args[1]

\* C24: the spinner lookup is total and round-trips.  get returns a preset of
\* the registry for every name; for a name that list() returns it is the preset
\* of that name; for a name that matches a registry name when ASCII case is
\* ignored it is the preset of the matching name; for a name that matches none
\* it is the preset named default_name(), 'diamond'.  The names list() returns
\* are pairwise distinct even when ASCII case is ignored, and default_name()
\* is one of them.
C24_SpinnerLookupRoundTrips ==
    /\ SpinnerLookedUp =>
          /\ \E i \in 1..Len(ALL) : ALL[i] = last.spinner
          /\ (LookedUpName \in RegistryNames) => (last.spinner.name = LookedUpName)
          /\ (MatchingNames(LookedUpName) # {}) =>
                (last.spinner.name \in MatchingNames(LookedUpName))
          /\ (MatchingNames(LookedUpName) = {}) =>
                /\ last.spinner.name = default_name
                /\ last.spinner.name = <<"d", "i", "a", "m", "o", "n", "d">>
    /\ (last.op = "spinners::list") =>
          /\ Len(last.names) = Len(ALL)
          /\ \A i, j \in 1..Len(last.names) :
                (i # j) => (Folded(last.names[i]) # Folded(last.names[j]))
          /\ \A i \in 1..Len(last.names) : get(last.names[i]).name = last.names[i]
    /\ (last.op = "spinners::default_name") =>
          /\ last.name = <<"d", "i", "a", "m", "o", "n", "d">>
          /\ \E i \in 1..Len(list) : list[i] = last.name

\* 'DOTS2' was looked up: it matches 'dots2' when case is ignored, and the
\* preset returned is 'dots2', not the earlier 'dots'.
C24_Witness ==
    /\ SpinnerLookedUp
    /\ LookedUpName = <<"D", "O", "T", "S", "2">>
    /\ LookedUpName \notin RegistryNames
    /\ last.spinner.name = <<"d", "o", "t", "s", "2">>


\* A table was converted; what the handler was given and what it collected.
TableConverted == last.op = "table_handler"

TableGiven == input.args[1]

TableContent == StrTrim(TableGiven.content)

TableCollected == TableParts(NoTableParts, TableGiven.children)

TableHeaders == TableCollected.headers

TableRows == TableCollected.rows

\* The column count the claim names: the header count when there are headers,
\* else the length of the longest data row.
ClaimedColumns ==
    IF TableHeaders # <<>> THEN Len(TableHeaders)
    ELSE IF TableRows = <<>> THEN 0
    ELSE CHOOSE n \in 0..(MaxRowCells + 1) :
            /\ \E r \in 1..Len(TableRows) : Len(TableRows[r]) = n
            /\ \A r \in 1..Len(TableRows) : Len(TableRows[r]) <= n

\* The pieces of a line between its pipes (str::split('|')).
RECURSIVE SplitAtPipes(_)
SplitAtPipes(s) ==
    IF ~Contains(s, "|") THEN <<s>>
    ELSE LET k == CHOOSE i \in 1..Len(s) : s[i] = "|" /\ \A j \in 1..(i - 1) : s[j] # "|"
         IN  <<SubSeq(s, 1, k - 1)>> \o SplitAtPipes(SubSeq(s, k + 1, Len(s)))

\* A Markdown table row opens and closes with a pipe; its cells lie between.
IsMarkdownRow(line) ==
    /\ Len(SplitAtPipes(line)) >= 2
    /\ SplitAtPipes(line)[1] = <<>>
    /\ SplitAtPipes(line)[Len(SplitAtPipes(line))] = <<>>

MarkdownCells(line) == SubSeq(SplitAtPipes(line), 2, Len(SplitAtPipes(line)) - 1)

\* The lines of the returned Markdown: two empty lines, the captions, the
\* table's rows, an empty line.
MarkdownLines == StrLines(last.result[1])

MarkdownRows ==
    SubSeq(MarkdownLines, 3 + Len(TableCollected.captions), Len(MarkdownLines) - 1)

\* The Markdown rows that show data rows: those after header and separator.
DataRowOffset == IF TableHeaders # <<>> THEN 2 ELSE 0

\* Cell i of a Markdown row shows cell i of the row it was made from, and
\* nothing where that row has no cell i.
ShowsRow(line, row) ==
    \A i \in 1..Len(MarkdownCells(line)) :
        StrTrim(MarkdownCells(line)[i]) =
            (IF i <= Len(row) THEN normalize_cell_content(row[i]) ELSE <<>>)

IsSeparatorRow(line) ==
    \A i \in 1..Len(MarkdownCells(line)) :
        \A k \in 1..Len(StrTrim(MarkdownCells(line)[i])) :
            StrTrim(MarkdownCells(line)[i])[k] = "-"

\* C25: for a table whose content is not blank, table_handler returns the raw
\* content between blank lines when it finds no header and no data cells;
\* otherwise it returns a Markdown table in which the header row and the
\* separator row, present exactly when there are headers, and every data row
\* have exactly num_columns cells, num_columns being the header count when
\* there are headers and else the length of the longest data row: a row with
\* fewer cells is padded with empty cells, and the cells of a row beyond
\* num_columns are dropped.
C25_RowsHaveNumColumnsCells ==
    (TableConverted /\ TableContent # <<>>) =>
        /\ last.result # <<>>
        /\ IF TableHeaders = <<>> /\ TableRows = <<>>
           THEN last.result[1] = <<LF, LF>> \o TableContent \o <<LF, LF>>
           ELSE /\ ClaimedColumns > 0
                /\ Len(MarkdownRows) = DataRowOffset + Len(TableRows)
                /\ \A k \in 1..Len(MarkdownRows) :
                      /\ IsMarkdownRow(MarkdownRows[k])
                      /\ Len(MarkdownCells(MarkdownRows[k])) = ClaimedColumns
                /\ (TableHeaders # <<>>) =>
                      /\ ShowsRow(MarkdownRows[1], TableHeaders)
                      /\ IsSeparatorRow(MarkdownRows[2])
                /\ \A r \in 1..Len(TableRows) :
                      ShowsRow(MarkdownRows[DataRowOffset + r], TableRows[r])

\* A table of two headers, a data row of one cell and a data row of three
\* cells comes out as four rows of two cells: the short row padded with an
\* empty cell, the third cell of the long row dropped.
C25_Witness ==
    /\ TableConverted
    /\ TableContent # <<>>
    /\ Len(TableHeaders) = 2
    /\ Len(TableRows) = 2
    /\ Len(TableRows[1]) = 1
    /\ Len(TableRows[2]) = 3
    /\ Len(MarkdownRows) = 4
    /\ StrTrim(MarkdownCells(MarkdownRows[3])[2]) = <<>>
    /\ Len(MarkdownCells(MarkdownRows[4])) = 2
    /\ StrTrim(MarkdownCells(MarkdownRows[4])[2]) = <<"b", "&", "#", "1", "2", "4",
        ";", "c">>

====
